---- MODULE Spec2Model ----
(***************************************************************************)
(* A model of nitf-viz: the mosaic row lookup of src/woof.rs               *)
(* (StackedArrays) and the raster decoder of src/image_wrapper.rs          *)
(* (ImageWrapper::read_image and the readers it dispatches to).            *)
(*                                                                         *)
(* Both are functions of their inputs.  Each has its own specification:    *)
(* Init draws the inputs from bounded sets, one action applies the         *)
(* function as the code computes it and records what the caller gets       *)
(* back: a value, a VizError, or a panic (the process aborts).             *)
(***************************************************************************)
EXTENDS Integers, Sequences, FiniteSets, TLC

VARIABLES
    stack,      \* StackedArrays: [rows, cols], the shape of every segment array
                \* (and planes, their raw samples, in a thumbnail run)
    index,      \* the [usize; 2] handed to StackedArrays::index: <<row, col>>
    lookup,     \* what the mosaic lookup gave back
    wrapper,    \* ImageWrapper: the descriptor fields, the bands and the data
    decoded,    \* what ImageWrapper::read_image gave back
    plane,      \* a raw complex plane: [n_rows, n_cols, buffer]
    pedf,       \* the Pedf calibrated from it: [eps, slope, constant]
    remapped,   \* Pedf::remap of every sample of the plane
    args,       \* the Cli arguments of a run
    resampled,  \* out, the resampled mosaic: [rows, cols, data]
    picture,    \* the image a run is working on: [width, height, buf]
    written,    \* the files a run has written, in order
    handler,    \* the Handler: [numi, wrappers, size, brightness, contrast]
    i_seg,      \* the segment a run of the handler is at (from 0)
    result,     \* what a run returned
    tasks,      \* the tasks of a parallel loop: [pc, elem] each
    slots,      \* the output the tasks of a parallel loop write to
    writes,     \* the number of writes every cell of it has taken
    pc          \* the step the run is at: "ready" first, "done" last

vars == <<stack, index, lookup, wrapper, decoded, plane, pedf, remapped, args,
          resampled, picture, written, handler, i_seg, result, tasks, slots,
          writes, pc>>

\* The state of the density remap.
remapVars == <<plane, pedf, remapped>>

\* The state of a run that writes images.
runVars == <<args, resampled, picture, written>>

\* The state of a run of the handler.
handlerVars == <<handler, i_seg, result>>

\* The state of a parallel loop.
parVars == <<tasks, slots, writes>>

(***************************************************************************)
(* Bounds of the model.                                                    *)
(***************************************************************************)
MaxSegments == 3        \* segments of a mosaic
MaxSegRows == 3         \* rows of one segment of a mosaic
MaxMosaicCols == 2      \* columns of a mosaic
MaxDim == 2             \* significant rows and columns of a segment
MaxBlocks == 2          \* blocks per row and per column
MaxBlockDim == 2        \* pixels per block, horizontal and vertical
MaxLen == 12            \* bytes of a raw plane

----------------------------------------------------------------------------
(***************************************************************************)
(* The mosaic: src/woof.rs, StackedArrays.                                 *)
(***************************************************************************)

\* A panic!(): the process aborts, the caller gets nothing back.
Panicked == [kind |-> "panic"]

None == [kind |-> "none"]

RECURSIVE SumTo(_, _)
\* self.rows[..n].iter().sum::<u32>(): the sum of the first n row counts.
SumTo(rows, n) == IF n = 0 THEN 0 ELSE SumTo(rows, n - 1) + rows[n]

\* ArrRowIdxFrom with the prior sum taken over rows[..=i_arr] (one too many).
RECURSIVE ArrRowIdxFrom_PriorInclusive(_, _, _)
ArrRowIdxFrom_PriorInclusive(rows, i_row, i_arr) ==
    IF i_arr >= Len(rows)
    THEN Panicked
    ELSE IF i_row < SumTo(rows, i_arr + 1)
         THEN [kind |-> "ok", i_arr |-> i_arr,
               i_row |-> i_row - SumTo(rows, i_arr + 1)]
         ELSE ArrRowIdxFrom_PriorInclusive(rows, i_row, i_arr + 1)

RECURSIVE ArrRowIdxFrom(_, _, _)
\* The loop of arr_row_idx from iteration i_arr on (i_arr counts from 0, as
\* in the code; rows is a sequence, so rows[..=i_arr] is its first i_arr + 1
\* elements).  Falling out of the loop reaches the panic!.
ArrRowIdxFrom(rows, i_row, i_arr) ==
    IF i_arr >= Len(rows)
    THEN Panicked
    ELSE IF i_row < SumTo(rows, i_arr + 1)
         THEN [kind |-> "ok", i_arr |-> i_arr,
               i_row |-> i_row - SumTo(rows, i_arr)]
         ELSE ArrRowIdxFrom(rows, i_row, i_arr + 1)

\* StackedArrays::arr_row_idx.
arr_row_idx(rows, i_row) == ArrRowIdxFrom(rows, i_row, 0)

\* Index<[usize; 2]> for StackedArrays: resolve the row, then index the
\* segment's array, which ndarray bounds-checks against the array's shape.
StackedIndex(s, idx) ==
    LET r == arr_row_idx(s.rows, idx[1])
    IN  IF r.kind = "panic"
        THEN Panicked
        ELSE IF r.i_row < s.rows[r.i_arr + 1] /\ idx[2] < s.cols[r.i_arr + 1]
             THEN [kind |-> "elem", i_arr |-> r.i_arr, i_row |-> r.i_row,
                   i_col |-> idx[2]]
             ELSE Panicked

RECURSIVE SeqsUpTo(_, _)
\* The sequences of at most n elements of S.
SeqsUpTo(S, n) ==
    IF n = 0 THEN {<<>>}
    ELSE LET shorter == SeqsUpTo(S, n - 1)
         IN  shorter \cup {Append(s, x) : s \in {t \in shorter : Len(t) = n - 1},
                                          x \in S}

\* The row counts of the mosaics considered: every list of 1..MaxSegments
\* segments of 0..MaxSegRows rows, and the mosaic of the specification's
\* example.
ExampleRows == <<100, 50, 30>>

RowLists ==
    (SeqsUpTo(0..MaxSegRows, MaxSegments) \ {<<>>}) \cup {ExampleRows}

\* The state of the decoder while the mosaic is looked at.
IdleWrapper == [kind |-> "none"]

InitMosaic ==
    /\ \E rows \in RowLists, c \in 1..MaxMosaicCols :
          stack = [rows |-> rows, cols |-> [i \in 1..Len(rows) |-> c]]
    /\ \E g \in 0..(SumTo(stack.rows, Len(stack.rows)) + 1),
          c \in 0..stack.cols[1] :
          index = <<g, c>>
    /\ lookup = None
    /\ wrapper = IdleWrapper
    /\ decoded = None
    /\ plane = None
    /\ pedf = None
    /\ remapped = None
    /\ args = None
    /\ resampled = None
    /\ picture = None
    /\ written = None
    /\ handler = None
    /\ i_seg = 0
    /\ result = None
    /\ tasks = <<>>
    /\ slots = <<>>
    /\ writes = <<>>
    /\ pc = "ready"

\* A caller resolves the global row index[1].
ArrRowIdx ==
    /\ pc = "ready"
    /\ stack # None
    /\ lookup' = [op |-> "arr_row_idx", res |-> arr_row_idx(stack.rows, index[1])]
    /\ pc' = "done"
    /\ UNCHANGED <<parVars, stack, index, wrapper, decoded, remapVars, runVars, handlerVars>>

\* A caller reads stack[[index[1], index[2]]].
Index ==
    /\ pc = "ready"
    /\ stack # None
    /\ lookup' = [op |-> "index", res |-> StackedIndex(stack, index)]
    /\ pc' = "done"
    /\ UNCHANGED <<parVars, stack, index, wrapper, decoded, remapVars, runVars, handlerVars>>

NextMosaic == ArrRowIdx \/ Index

SpecMosaic == InitMosaic /\ [][NextMosaic]_vars

----------------------------------------------------------------------------
(***************************************************************************)
(* The decoder: src/image_wrapper.rs, ImageWrapper.                        *)
(*                                                                         *)
(* A raster (RgbaImage) is [width, height, buf]: buf holds the pixels in   *)
(* row-major order, pixel (x, y) at buf[y * width + x + 1]; a pixel is     *)
(* <<r, g, b, a>>.  A raw plane (the Mmap) is a sequence of bytes.         *)
(* The descriptor fields pvtype, ic, abpp and imode are only logged and    *)
(* are left out.  The u32 products of read_image (raster size, chunk      *)
(* size) stay far below 2^32 within the bounds, so they are plain          *)
(* integers here.  The unblocked readers run their per-pixel closures in   *)
(* parallel, each on its own pixel; they are given by their joint result.  *)
(***************************************************************************)

U8Max == 255
U8Min == 0

Min(a, b) == IF a < b THEN a ELSE b

Ok(image) == [kind |-> "ok", image |-> image]
Err(e) == [kind |-> "err", error |-> e]

\* VizError::Nbpp and VizError::Irep(kind).
ErrNbpp == Err(<<"Nbpp">>)
ErrIrep(irep) == Err(<<"Irep", irep>>)

\* RgbaImage::new(width, height): every pixel zero.
NewImage(width, height) ==
    [width |-> width, height |-> height,
     buf |-> [i \in 1..(width * height) |-> <<0, 0, 0, 0>>]]

\* A lookup table is [nelut, seed]: nelut entries, entry idx (from 0)
\* holding (seed + 3 * idx) mod 256.
LutEntry(table, idx) == (table.seed + 3 * idx) % 256

\* lut[c][idx], for c and idx from 0; indexing a Vec past its end panics.
LutAt(lutd, c, idx) ==
    IF c < Len(lutd) /\ idx < lutd[c + 1].nelut
    THEN [kind |-> "ok", val |-> LutEntry(lutd[c + 1], idx)]
    ELSE Panicked

\* LutPixel with the red and the blue table exchanged.
LutPixel_BlueFirst(lutd, idx, alpha) ==
    LET r == LutAt(lutd, 2, idx)
        g == LutAt(lutd, 1, idx)
        b == LutAt(lutd, 0, idx)
    IN  IF r.kind = "panic" \/ g.kind = "panic" \/ b.kind = "panic"
        THEN Panicked
        ELSE [kind |-> "ok", px |-> <<r.val, g.val, b.val, alpha>>]

\* Rgba([lut[r][idx], lut[g][idx], lut[b][idx], alpha]) with (r, g, b) =
\* (0, 1, 2).
LutPixel(lutd, idx, alpha) ==
    LET r == LutAt(lutd, 0, idx)
        g == LutAt(lutd, 1, idx)
        b == LutAt(lutd, 2, idx)
    IN  IF r.kind = "panic" \/ g.kind = "panic" \/ b.kind = "panic"
        THEN Panicked
        ELSE [kind |-> "ok", px |-> <<r.val, g.val, b.val, alpha>>]

\* read_mono leaving the alpha channel of the pixels it writes at zero.
read_mono_Transparent(w, image) ==
    IF w.nbpp # 8
    THEN ErrNbpp
    ELSE Ok([image EXCEPT !.buf =
                [i \in 1..Len(image.buf) |->
                    IF i <= Len(w.data)
                    THEN <<w.data[i], w.data[i], w.data[i], U8Min>>
                    ELSE image.buf[i]]])

\* read_mono: the bytes of the plane zipped with the pixels of the raster;
\* the zip ends with the shorter of the two.
read_mono(w, image) ==
    IF w.nbpp # 8
    THEN ErrNbpp
    ELSE Ok([image EXCEPT !.buf =
                [i \in 1..Len(image.buf) |->
                    IF i <= Len(w.data)
                    THEN <<w.data[i], w.data[i], w.data[i], U8Max>>
                    ELSE image.buf[i]]])

\* data.par_chunks(3): chunk k (from 0) holds the bytes from 3k on, at most
\* three of them; the last chunk may be shorter.
NumChunks3(data) == (Len(data) + 2) \div 3
Chunk3(data, k) == SubSeq(data, 3 * k + 1, Min(3 * k + 3, Len(data)))

\* read_rgb writing the three bytes of a chunk as (b, g, r).
read_rgb_Reordered(w, image) ==
    IF w.nbpp # 8
    THEN ErrNbpp
    ELSE LET n == Min(NumChunks3(w.data), Len(image.buf))
         IN  IF \E k \in 0..(n - 1) : Len(Chunk3(w.data, k)) < 3
             THEN Panicked
             ELSE Ok([image EXCEPT !.buf =
                        [i \in 1..Len(image.buf) |->
                            IF i <= n
                            THEN LET c == Chunk3(w.data, i - 1)
                                 IN  <<c[3], c[2], c[1], U8Max>>
                            ELSE image.buf[i]]])

\* read_rgb: the chunks of three bytes zipped with the pixels; data[1] or
\* data[2] of a short last chunk panics.
read_rgb(w, image) ==
    IF w.nbpp # 8
    THEN ErrNbpp
    ELSE LET n == Min(NumChunks3(w.data), Len(image.buf))
         IN  IF \E k \in 0..(n - 1) : Len(Chunk3(w.data, k)) < 3
             THEN Panicked
             ELSE Ok([image EXCEPT !.buf =
                        [i \in 1..Len(image.buf) |->
                            IF i <= n
                            THEN LET c == Chunk3(w.data, i - 1)
                                 IN  <<c[1], c[2], c[3], U8Max>>
                            ELSE image.buf[i]]])

\* read_rgb_lut: every byte is an index into the tables of band 0.
read_rgb_lut(w, image) ==
    IF w.nbpp # 8
    THEN ErrNbpp
    ELSE IF Len(w.bands) = 0
    THEN Panicked
    ELSE LET lut == w.bands[1].lutd
             n == Min(Len(w.data), Len(image.buf))
         IN  IF \E i \in 1..n : LutPixel(lut, w.data[i], U8Max).kind = "panic"
             THEN Panicked
             ELSE Ok([image EXCEPT !.buf =
                        [i \in 1..Len(image.buf) |->
                            IF i <= n
                            THEN LutPixel(lut, w.data[i], U8Max).px
                            ELSE image.buf[i]]])

\* BlockAlpha counting the first row and column past the significant extent
\* as significant.
BlockAlpha_OnePast(w, x, y) ==
    IF x > w.ncols \/ y > w.nrows THEN U8Min ELSE U8Max

\* The alpha closure of the blocked readers.
BlockAlpha(w, x, y) ==
    IF x >= w.ncols \/ y >= w.nrows THEN U8Min ELSE U8Max

\* BlockIdx in column-major block order.
BlockIdx_ColumnMajor(w, i_x, i_y) == i_y + i_x * w.nbpc

\* block_idx of read_image.
BlockIdx(w, i_x, i_y) == i_x + i_y * w.nbpr

DefaultBlock == [x |-> 0, y |-> 0, width |-> 0, height |-> 0]

RECURSIVE BlockInfoRow(_, _, _, _)
\* The inner loop of read_image's block_info construction, from i_x on.
BlockInfoRow(w, info, i_y, i_x) ==
    IF i_x >= w.nbpr
    THEN info
    ELSE BlockInfoRow(w,
            [info EXCEPT ![BlockIdx(w, i_x, i_y) + 1] =
                [x |-> i_x * w.nppbh, y |-> i_y * w.nppbv,
                 width |-> w.nppbh, height |-> w.nppbv]],
            i_y, i_x + 1)

RECURSIVE BlockInfoRows(_, _, _)
\* The outer loop, from i_y on.
BlockInfoRows(w, info, i_y) ==
    IF i_y >= w.nbpc
    THEN info
    ELSE BlockInfoRows(w, BlockInfoRow(w, info, i_y, 0), i_y + 1)

\* block_info: vec![BlockInfo::default(); n_block], then filled.
BlockInfos(w) ==
    BlockInfoRows(w, [k \in 1..(w.nbpr * w.nbpc) |-> DefaultBlock], 0)

\* The place of (i_x, i_y) in block_iter.
BlockIterIdx(block, i_x, i_y) == i_x + i_y * block.width

RECURSIVE BlockIterRow(_, _, _, _)
\* The inner loop of a blocked reader's block_iter construction.
BlockIterRow(block, iter, i_y, i_x) ==
    IF i_x >= block.width
    THEN iter
    ELSE BlockIterRow(block,
            [iter EXCEPT ![BlockIterIdx(block, i_x, i_y) + 1] =
                <<block.x + i_x, block.y + i_y>>],
            i_y, i_x + 1)

RECURSIVE BlockIterRows(_, _, _)
BlockIterRows(block, iter, i_y) ==
    IF i_y >= block.height
    THEN iter
    ELSE BlockIterRows(block, BlockIterRow(block, iter, i_y, 0), i_y + 1)

\* block_iter: the global (x, y) of every pixel of the block, row by row.
BlockIter(block) ==
    BlockIterRows(block, [k \in 1..(block.width * block.height) |-> <<0, 0>>], 0)

\* image.put_pixel(x, y, px): panics outside the raster.
PutPixel(image, x, y, px) ==
    IF x < image.width /\ y < image.height
    THEN Ok([image EXCEPT !.buf[y * image.width + x + 1] = px])
    ELSE Panicked

\* Sample j (from 1) of a chunk as the pixel a blocked reader writes at
\* (x, y): a byte for MONO and RGBLUT, three bytes for RGB.
BlockedPixel(w, data, j, x, y) ==
    CASE w.irep = "MONO" ->
            [kind |-> "ok",
             px |-> <<data[j], data[j], data[j], BlockAlpha(w, x, y)>>]
      [] w.irep = "RGB" ->
            [kind |-> "ok",
             px |-> <<data[3 * j - 2], data[3 * j - 1], data[3 * j],
                      BlockAlpha(w, x, y)>>]
      [] w.irep = "RGBLUT" ->
            LutPixel(w.bands[1].lutd, data[j], BlockAlpha(w, x, y))

\* The samples of a chunk: data.iter() for MONO and RGBLUT,
\* data.chunks_exact(3) for RGB.
NumSamples(w, data) ==
    IF w.irep = "RGB" THEN Len(data) \div 3 ELSE Len(data)

RECURSIVE PutSamples(_, _, _, _, _)
\* The loop of a blocked reader over the samples zipped with block_iter,
\* from sample j on.
PutSamples(w, data, iter, image, j) ==
    IF j > NumSamples(w, data) \/ j > Len(iter)
    THEN Ok(image)
    ELSE LET p == BlockedPixel(w, data, j, iter[j][1], iter[j][2])
         IN  IF p.kind = "panic"
             THEN Panicked
             ELSE LET put == PutPixel(image, iter[j][1], iter[j][2], p.px)
                  IN  IF put.kind = "panic"
                      THEN Panicked
                      ELSE PutSamples(w, data, iter, put.image, j + 1)

\* blocked_read_mono, blocked_read_rgb and blocked_read_rgblut: the three
\* differ in the samples they read and the pixel they make of one.
blocked_read(w, data, block, image) ==
    IF w.nbpp # 8
    THEN ErrNbpp
    ELSE IF w.irep = "RGBLUT" /\ Len(w.bands) = 0
    THEN Panicked
    ELSE PutSamples(w, data, BlockIter(block), image, 1)

\* data.chunks_exact(chunk_size): the whole chunks of the plane.
ChunksExact(data, chunk_size) ==
    [k \in 1..(Len(data) \div chunk_size) |->
        SubSeq(data, (k - 1) * chunk_size + 1, k * chunk_size)]

RECURSIVE TryForEach(_, _, _, _, _)
\* block_info.iter().zip(data_chunks).try_for_each(...), from pair k on: the
\* first error ends the decode.
TryForEach(w, blocks, chunks, image, k) ==
    IF k > Len(blocks) \/ k > Len(chunks)
    THEN Ok(image)
    ELSE LET r == IF w.irep \in {"MONO", "RGB", "RGBLUT"}
                  THEN blocked_read(w, chunks[k], blocks[k], image)
                  ELSE ErrIrep(w.irep)
         IN  IF r.kind # "ok"
             THEN r
             ELSE TryForEach(w, blocks, chunks, r.image, k + 1)

\* NbppAligned accepting every multiple of four bits.
NbppAligned_Nibbles(w) == w.nbpp % 4 = 0

\* The bit-depth check that opens read_image.
NbppAligned(w) == w.nbpp % 8 = 0

\* ImageCols with the two branches the other way round and the threshold at
\* one block.
ImageCols_Swapped(w) == IF w.nbpr < 1 THEN w.nbpr * w.nppbh ELSE w.ncols

\* The width and the height of the raster read_image allocates.
ImageCols(w) == IF w.nbpr < 2 THEN w.ncols ELSE w.nbpr * w.nppbh
ImageRows(w) == IF w.nbpc < 2 THEN w.nrows ELSE w.nbpc * w.nppbv

\* chunk_size of read_image.
ChunkSize(w) == (w.nbpp \div 8) * w.nppbh * w.nppbv * w.nbands

\* The unblocked dispatch of read_image.
ReadUnblocked(w, image) ==
    CASE w.irep = "MONO" -> read_mono(w, image)
      [] w.irep = "RGB" -> read_rgb(w, image)
      [] w.irep = "RGBLUT" -> read_rgb_lut(w, image)
      [] OTHER -> ErrIrep(w.irep)

\* The blocked part of read_image; chunks_exact(0) panics.
ReadBlocked(w, image) ==
    IF ChunkSize(w) = 0
    THEN Panicked
    ELSE TryForEach(w, BlockInfos(w), ChunksExact(w.data, ChunkSize(w)),
                    image, 1)

\* ImageWrapper::read_image.
read_image(w) ==
    IF ~NbppAligned(w)
    THEN ErrNbpp
    ELSE LET image == NewImage(ImageCols(w), ImageRows(w))
         IN  IF w.nbpr = 1 /\ w.nbpc = 1
             THEN ReadUnblocked(w, image)
             ELSE ReadBlocked(w, image)

(***************************************************************************)
(* The descriptors and raw planes the decoder is run on.                   *)
(***************************************************************************)

\* Colour representations: the three the decoder reads, the complex kind
\* and one more kind it does not read.
Ireps == {"MONO", "RGB", "RGBLUT", "NODISPLY", "MULTI"}

\* Bits per pixel: one byte, not byte aligned, two bytes.
Nbpps == {8, 12, 16}

\* Blocks per row and per column.
BlockCounts == 0..MaxBlocks

\* A band without lookup tables, and a band with three 256-entry tables.
NoLutBand == [lutd |-> <<>>]
LutBand ==
    [lutd |-> <<[nelut |-> 256, seed |-> 10], [nelut |-> 256, seed |-> 100],
                [nelut |-> 256, seed |-> 200]>>]

\* The band lists: nbands is the length of the list the header parser
\* returns.
BandLists == {<<>>, <<NoLutBand>>, <<LutBand>>,
              <<NoLutBand, NoLutBand, NoLutBand>>}

\* Byte i (from 1) of the raw plane that starts with byte first: the plane
\* that starts with 0 holds 0, 85, 170, 255, 84, ...
PlaneByte(first, i) == (first + 85 * (i - 1)) % 256

PlaneStarts == {0, 7}

RawPlanes ==
    {[i \in 1..n |-> PlaneByte(first, i)] : n \in 0..MaxLen,
                                            first \in PlaneStarts}

InitDecode ==
    /\ \E nrows \in 1..MaxDim, ncols \in 1..MaxDim,
          irep \in Ireps, nbpp \in Nbpps, bands \in BandLists,
          nbpr \in BlockCounts, nbpc \in BlockCounts,
          nppbh \in 0..MaxBlockDim, nppbv \in 0..MaxBlockDim,
          data \in RawPlanes :
          wrapper = [nrows |-> nrows, ncols |-> ncols, irep |-> irep,
                     nbands |-> Len(bands), nbpp |-> nbpp,
                     nbpc |-> nbpc, nbpr |-> nbpr, bands |-> bands,
                     nppbh |-> nppbh, nppbv |-> nppbv, data |-> data]
    /\ decoded = None
    /\ stack = None
    /\ index = <<0, 0>>
    /\ lookup = None
    /\ plane = None
    /\ pedf = None
    /\ remapped = None
    /\ args = None
    /\ resampled = None
    /\ picture = None
    /\ written = None
    /\ handler = None
    /\ i_seg = 0
    /\ result = None
    /\ tasks = <<>>
    /\ slots = <<>>
    /\ writes = <<>>
    /\ pc = "ready"

\* ImageWrapper::read_image runs on the wrapper.
ReadImage ==
    /\ pc = "ready"
    /\ wrapper # IdleWrapper
    /\ decoded' = read_image(wrapper)
    /\ pc' = "done"
    /\ UNCHANGED <<parVars, stack, index, lookup, wrapper, remapVars, runVars, handlerVars>>

NextDecode == ReadImage

SpecDecode == InitDecode /\ [][NextDecode]_vars

\* The segment examples/generate_rgb.rs writes, at small sizes: RGB, three
\* bands without tables, 24 bits per pixel, three bytes of data per pixel,
\* not blocked.
InitGenerateRgb ==
    /\ \E nrows \in 1..(MaxDim + 1), ncols \in 1..(MaxDim + 1),
          nppbh \in 0..MaxBlockDim, nppbv \in 0..MaxBlockDim,
          first \in PlaneStarts :
          wrapper = [nrows |-> nrows, ncols |-> ncols, irep |-> "RGB",
                     nbands |-> 3, nbpp |-> 24, nbpc |-> 1, nbpr |-> 1,
                     bands |-> <<NoLutBand, NoLutBand, NoLutBand>>,
                     nppbh |-> nppbh, nppbv |-> nppbv,
                     data |-> [i \in 1..(3 * nrows * ncols) |->
                                 PlaneByte(first, i)]]
    /\ decoded = None
    /\ stack = None
    /\ index = <<0, 0>>
    /\ lookup = None
    /\ plane = None
    /\ pedf = None
    /\ remapped = None
    /\ args = None
    /\ resampled = None
    /\ picture = None
    /\ written = None
    /\ handler = None
    /\ i_seg = 0
    /\ result = None
    /\ tasks = <<>>
    /\ slots = <<>>
    /\ writes = <<>>
    /\ pc = "ready"

SpecGenerateRgb == InitGenerateRgb /\ [][NextDecode]_vars

----------------------------------------------------------------------------
(***************************************************************************)
(* f32 arithmetic, as the resampler and the density remap use it.          *)
(*                                                                         *)
(* A finite f32 is sign * m * 2^e with m < 2^24; m >= 2^23 unless          *)
(* e = -149 (a subnormal, or zero).  Every operation rounds its exact      *)
(* result to the nearest such value, ties to the even mantissa, as IEEE    *)
(* 754 does.  Zero is kept without a sign: nothing in the code tells -0.0  *)
(* from 0.0.                                                               *)
(***************************************************************************)

Two23 == 8388608        \* 2^23: the smallest mantissa of a normal f32
Two24 == 16777216       \* 2^24: one past the largest mantissa
MinExp == -149          \* the exponent of the subnormals
MaxExp == 104           \* the largest exponent: f32::MAX = (2^24 - 1) * 2^104

\* The element of a singleton set.  {e(x) : x \in {v}} is e of the value v:
\* where a definition uses an intermediate result more than once, it binds
\* the result this way, so that the result is worked out once.
Value(S) == CHOOSE v \in S : TRUE

NaN == [k |-> "nan"]
Inf(s) == [k |-> "inf", s |-> s]
Fin(s, m, e) == [k |-> "fin", s |-> s, m |-> m, e |-> e]
Zero == Fin(1, 0, MinExp)

IsNaN(a) == a.k = "nan"
IsInf(a) == a.k = "inf"
IsFin(a) == a.k = "fin"
IsZero(a) == a.k = "fin" /\ a.m = 0

Max(a, b) == IF a >= b THEN a ELSE b

RECURSIVE Pow2(_)
Pow2(n) == IF n = 0 THEN 1 ELSE 2 * Pow2(n - 1)

RECURSIVE BitLen(_)
\* The number of bits of q.
BitLen(q) == IF q = 0 THEN 0 ELSE 1 + BitLen(q \div 2)

\* m * 2^ex of sign s, for a mantissa m <= 2^24 rounded at exponent ex: a
\* mantissa of 2^24 is 2^23 at the next exponent, and an exponent past the
\* largest is an infinity.
Rounded(s, m, ex) ==
    IF m = 0
    THEN Zero
    ELSE IF m = Two24
    THEN IF ex + 1 > MaxExp THEN Inf(s) ELSE Fin(s, Two23, ex + 1)
    ELSE IF ex > MaxExp THEN Inf(s) ELSE Fin(s, m, ex)

\* q with its last sh > 0 bits rounded off to nearest, ties to even.
RoundOff(q, sh, sticky) ==
    Value({IF d > half \/ (d = half /\ (sticky \/ m0 % 2 = 1))
           THEN m0 + 1
           ELSE m0 :
           m0 \in {q \div Pow2(sh)}, d \in {q % Pow2(sh)},
           half \in {Pow2(sh - 1)}})

\* The f32 nearest to sign s times an exact value v: v = q * 2^e when sticky
\* is FALSE, q * 2^e < v < (q + 1) * 2^e when it is TRUE (q then has at
\* least 26 bits).  sh is the number of low bits of q that do not fit.
Round(s, q, e, sticky) ==
    Value({IF q = 0 /\ ~sticky
           THEN Zero
           ELSE IF sh > 31
           THEN Zero
           ELSE IF sh = 31
           THEN IF q > Pow2(30) \/ (q = Pow2(30) /\ sticky)
                THEN Fin(s, 1, MinExp)
                ELSE Zero
           ELSE IF sh <= 0
           THEN IF e + sh > MaxExp
                THEN Inf(s)
                ELSE Fin(s, q * Pow2(-sh), e + sh)
           ELSE Rounded(s, RoundOff(q, sh, sticky), e + sh) :
           sh \in {Max(BitLen(q) - 24, MinExp - e)}})

\* n as f32, for a natural number n below 2^31.
F32FromNat(n) == Round(1, n, 0, FALSE)

\* -a.
F32Neg(a) ==
    IF IsNaN(a) \/ IsZero(a)
    THEN a
    ELSE IF IsInf(a) THEN Inf(-a.s) ELSE Fin(-a.s, a.m, a.e)

\* |a| < |b|, for finite a and b.
MagLess(a, b) == a.e < b.e \/ (a.e = b.e /\ a.m < b.m)

\* The low operand of a sum, shifted to the exponent of the high one and
\* kept with three more bits: <<the bits, whether others were shifted out>>.
Aligned(lo, d) ==
    IF d >= 27
    THEN <<0, lo.m # 0>>
    ELSE <<(lo.m * 8) \div Pow2(d), (lo.m * 8) % Pow2(d) # 0>>

\* |a| + |b| with sign s, for finite a and b.
AddMag(s, a, b) ==
    Value({Value({Round(s, hi.m * 8 + al[1], hi.e - 3, al[2]) :
                  al \in {Aligned(lo, hi.e - lo.e)}}) :
           hi \in {IF a.e >= b.e THEN a ELSE b},
           lo \in {IF a.e >= b.e THEN b ELSE a}})

\* |a| - |b| with sign s, for finite a and b with |a| >= |b|.
SubMag(s, a, b) ==
    Value({Round(s, IF al[2] THEN a.m * 8 - al[1] - 1 ELSE a.m * 8 - al[1],
                 a.e - 3, al[2]) :
           al \in {Aligned(b, a.e - b.e)}})

\* a + b.
F32Add(a, b) ==
    IF IsNaN(a) \/ IsNaN(b)
    THEN NaN
    ELSE IF IsInf(a)
    THEN IF IsInf(b) /\ b.s # a.s THEN NaN ELSE a
    ELSE IF IsInf(b)
    THEN b
    ELSE IF a.s = b.s
    THEN AddMag(a.s, a, b)
    ELSE SubMag(IF MagLess(a, b) THEN b.s ELSE a.s,
                IF MagLess(a, b) THEN b ELSE a,
                IF MagLess(a, b) THEN a ELSE b)

\* a - b.
F32Sub(a, b) == F32Add(a, F32Neg(b))

RECURSIVE Normal(_, _)
\* <<m, e>> with the same m * 2^e and m >= 2^23, for m > 0.
Normal(m, e) == IF m >= Two23 THEN <<m, e>> ELSE Normal(2 * m, e - 1)

\* The product of two mantissas of 24 bits, in limbs of 12 bits, rounded.
MulMag(s, ma, ea, mb, eb) ==
    LET a1 == ma \div 4096
        a0 == ma % 4096
        b1 == mb \div 4096
        b0 == mb % 4096
        t0 == a0 * b0
        t1 == a1 * b0 + a0 * b1 + (t0 \div 4096)
        t2 == a1 * b1 + (t1 \div 4096)
        d1 == t1 % 4096
        d0 == t0 % 4096
    IN  Round(s, t2 * 64 + (d1 \div 64), ea + eb + 18,
              d1 % 64 # 0 \/ d0 # 0)

\* a * b.
F32Mul(a, b) ==
    IF IsNaN(a) \/ IsNaN(b)
    THEN NaN
    ELSE IF IsInf(a) \/ IsInf(b)
    THEN IF IsZero(a) \/ IsZero(b) THEN NaN ELSE Inf(a.s * b.s)
    ELSE IF IsZero(a) \/ IsZero(b)
    THEN Zero
    ELSE LET na == Normal(a.m, a.e)
             nb == Normal(b.m, b.e)
         IN  MulMag(a.s * b.s, na[1], na[2], nb[1], nb[2])

RECURSIVE DivLoop(_, _, _, _)
\* Long division, seven bits a step: <<quotient, remainder>>.
DivLoop(q, r, mb, n) ==
    IF n = 0
    THEN <<q, r>>
    ELSE DivLoop(q * 128 + ((r * 128) \div mb), (r * 128) % mb, mb, n - 1)

\* The quotient of two normal mantissas, 28 bits past the point, rounded.
DivMag(s, ma, ea, mb, eb) ==
    LET qr == DivLoop(ma \div mb, ma % mb, mb, 4)
    IN  Round(s, qr[1], ea - eb - 28, qr[2] # 0)

\* a / b.
F32Div(a, b) ==
    IF IsNaN(a) \/ IsNaN(b)
    THEN NaN
    ELSE IF IsInf(a)
    THEN IF IsInf(b) THEN NaN ELSE Inf(a.s * b.s)
    ELSE IF IsInf(b)
    THEN Zero
    ELSE IF IsZero(b)
    THEN IF IsZero(a) THEN NaN ELSE Inf(a.s * b.s)
    ELSE IF IsZero(a)
    THEN Zero
    ELSE LET na == Normal(a.m, a.e)
             nb == Normal(b.m, b.e)
         IN  DivMag(a.s * b.s, na[1], na[2], nb[1], nb[2])

\* a <= b (false when either is NaN).
F32Le(a, b) ==
    IF IsNaN(a) \/ IsNaN(b)
    THEN FALSE
    ELSE IF IsInf(a)
    THEN a.s = -1 \/ (IsInf(b) /\ b.s = 1)
    ELSE IF IsInf(b)
    THEN b.s = 1
    ELSE IF a.s # b.s
    THEN a.s = -1
    ELSE IF a.s = 1 THEN ~MagLess(b, a) ELSE ~MagLess(a, b)

\* f32::max: the other operand when one is NaN.
F32Max(a, b) ==
    IF IsNaN(a) THEN b ELSE IF IsNaN(b) THEN a
    ELSE IF F32Le(a, b) THEN b ELSE a

\* f32::is_finite.
F32IsFinite(a) == IsFin(a)

\* The whole part of |a| for a finite a, as a natural number, capped at cap
\* (cap < 2^31).
TruncMag(a, cap) ==
    IF a.m = 0 \/ -a.e >= 24
    THEN 0
    ELSE IF a.e >= 8
    THEN cap
    ELSE IF a.e >= 0
    THEN Min(a.m * Pow2(a.e), cap)
    ELSE Min(a.m \div Pow2(-a.e), cap)

\* Whether a finite a has a fractional part.
HasFract(a) ==
    a.e < 0 /\ a.m # 0 /\ (-a.e >= 24 \/ a.m % Pow2(-a.e) # 0)

\* `a as u8`: the whole part toward zero, saturated to 0..=255; NaN is 0.
F32AsU8(a) ==
    IF IsNaN(a) THEN 0
    ELSE IF IsInf(a) THEN (IF a.s = 1 THEN 255 ELSE 0)
    ELSE IF a.s = -1 THEN 0 ELSE TruncMag(a, 255)

\* `a.ceil() as u32` for an a that is not negative (below cap).
F32CeilAsU32(a, cap) ==
    IF IsNaN(a) THEN 0
    ELSE IF IsInf(a) THEN cap
    ELSE LET t == TruncMag(a, cap)
         IN  IF HasFract(a) /\ t < cap THEN t + 1 ELSE t

\* f32::fract of an a that is finite and not negative: exact.
F32Fract(a) ==
    IF ~IsFin(a)
    THEN NaN
    ELSE IF a.e >= 0 \/ a.m = 0
    THEN Zero
    ELSE IF -a.e >= 24
    THEN a
    ELSE Round(1, a.m % Pow2(-a.e), a.e, FALSE)

RECURSIVE SqrtLoop(_, _, _, _)
\* The square root of m * 4^zeros digit by digit, from pair n of m (pair 0
\* holds its lowest two bits) down, then through the pairs of zeros:
\* <<root, remainder>>.
SqrtLoop(root, rem, m, n) ==
    IF n < -14
    THEN <<root, rem>>
    ELSE LET pair == IF n >= 0 THEN (m \div Pow2(2 * n)) % 4 ELSE 0
             r == rem * 4 + pair
             trial == 4 * root + 1
         IN  IF r >= trial
             THEN SqrtLoop(2 * root + 1, r - trial, m, n - 1)
             ELSE SqrtLoop(2 * root, r, m, n - 1)

\* a.sqrt().
F32Sqrt(a) ==
    IF IsNaN(a)
    THEN NaN
    ELSE IF IsZero(a)
    THEN Zero
    ELSE IF a.s = -1
    THEN NaN
    ELSE IF IsInf(a)
    THEN a
    ELSE LET na == Normal(a.m, a.e)
             m == IF na[2] % 2 = 0 THEN na[1] ELSE 2 * na[1]
             e == IF na[2] % 2 = 0 THEN na[2] ELSE na[2] - 1
             rr == SqrtLoop(0, 0, m, 12)
         IN  Round(1, rr[1], (e \div 2) - 14, rr[2] # 0)

\* f32::from_be_bytes: the sign bit, eight bits of exponent, 23 of fraction.
F32FromBeBytes(b) ==
    LET s == IF b[1] >= 128 THEN -1 ELSE 1
        ex == (b[1] % 128) * 2 + (b[2] \div 128)
        fr == (b[2] % 128) * 65536 + b[3] * 256 + b[4]
    IN  IF ex = 255
        THEN IF fr = 0 THEN Inf(s) ELSE NaN
        ELSE IF ex = 0
        THEN IF fr = 0 THEN Zero ELSE Fin(s, fr, MinExp)
        ELSE Fin(s, fr + Two23, ex - 150)

\* f32::MAX and f32::MIN.
F32MAX == Fin(1, Two24 - 1, MaxExp)
F32MIN == Fin(-1, Two24 - 1, MaxExp)

\* a.clamp(lo, hi): NaN stays NaN.
F32Clamp(a, lo, hi) ==
    IF IsNaN(a)
    THEN a
    ELSE IF ~F32Le(lo, a) THEN lo ELSE IF ~F32Le(a, hi) THEN hi ELSE a

----------------------------------------------------------------------------
(***************************************************************************)
(* The density remap: src/remap.rs, Pedf.                                  *)
(*                                                                         *)
(* A raw complex plane is a sequence of bytes; sample i (a C32Layout) is   *)
(* its bytes 8i .. 8i + 7: two big-endian f32, the real part first.        *)
(***************************************************************************)

\* The literals 0.8, 1E-5 and 0.5 as f32.
F32_0_8 == Fin(1, 13421773, -24)
F32_1Em5 == Fin(1, 10995116, -40)
F32_0_5 == Fin(1, Two23, -24)

\* log10 of the finite positive f32 the bounded runs take it of, rounded to
\* f32: <<argument, value>>.
Log10Table == {
    <<Fin(1, 11930465, -26), Fin(-1, 12584967, -24)>>,
    <<Fin(1, 8947849, -25), Fin(-1, 9630646, -24)>>,
    <<Fin(1, 11930465, -25), Fin(-1, 15069044, -25)>>,
    <<Fin(1, 13421773, -25), Fin(-1, 13352651, -25)>>,
    <<Fin(1, 8947849, -24), Fin(-1, 9160402, -25)>>,
    <<Fin(1, 10737419, -24), Fin(-1, 13007040, -26)>>,
    <<Fin(1, 11184811, -24), Fin(-1, 11817283, -26)>>,
    <<Fin(1, 11504377, -24), Fin(-1, 10996243, -26)>>,
    <<Fin(1, 11930465, -24), Fin(-1, 9936308, -26)>>,
    <<Fin(1, 11930466, -24), Fin(-1, 9936305, -26)>>,
    <<Fin(1, 12079595, -24), Fin(-1, 9574255, -26)>>,
    <<Fin(1, 12463075, -24), Fin(-1, 8663398, -26)>>,
    <<Fin(1, 12526988, -24), Fin(-1, 8514319, -26)>>,
    <<Fin(1, 12526989, -24), Fin(-1, 8514316, -26)>>,
    <<Fin(1, 12782641, -24), Fin(-1, 15851020, -27)>>,
    <<Fin(1, 12782642, -24), Fin(-1, 15851016, -27)>>,
    <<Fin(1, 12884902, -24), Fin(-1, 15386556, -27)>>,
    <<Fin(1, 13038294, -24), Fin(-1, 14696724, -27)>>,
    <<Fin(1, 13421773, -24), Fin(-1, 13007041, -27)>>,
    <<Fin(1, 14913082, -24), Fin(-1, 13731142, -28)>>,
    <<Fin(1, 8947849, -23), Fin(1, 15047819, -29)>>,
    <<Fin(1, 9320675, -23), Fin(1, 12282926, -28)>>,
    <<Fin(1, 10066330, -23), Fin(1, 10627529, -27)>>,
    <<Fin(1, 10439157, -23), Fin(1, 12747400, -27)>>,
    <<Fin(1, 10811984, -23), Fin(1, 14792873, -27)>>,
    <<Fin(1, 11184811, -23), Fin(1, 16768995, -27)>>,
    <<Fin(1, 11930465, -23), Fin(1, 10265473, -26)>>,
    <<Fin(1, 12303292, -23), Fin(1, 11162313, -26)>>,
    <<Fin(1, 13421773, -23), Fin(1, 13698261, -26)>>,
    <<Fin(1, 13841203, -23), Fin(1, 14595100, -26)>>,
    <<Fin(1, 13981013, -23), Fin(1, 14888017, -26)>>,
    <<Fin(1, 15285907, -23), Fin(1, 8744329, -25)>>,
    <<Fin(1, 16217976, -23), Fin(1, 9606860, -25)>>,
    <<Fin(1, 8388608, -22), Fin(1, 10100891, -25)>>,
    <<Fin(1, 9134263, -22), Fin(1, 11341855, -25)>>,
    <<Fin(1, 9227469, -22), Fin(1, 11489799, -25)>>,
    <<Fin(1, 9320675, -22), Fin(1, 11636256, -25)>>,
    <<Fin(1, 9786710, -22), Fin(1, 12347253, -25)>>,
    <<Fin(1, 9879916, -22), Fin(1, 12485381, -25)>>,
    <<Fin(1, 10066330, -22), Fin(1, 12757773, -25)>>,
    <<Fin(1, 10345950, -22), Fin(1, 13157044, -25)>>,
    <<Fin(1, 10380903, -22), Fin(1, 13206193, -25)>>,
    <<Fin(1, 10485760, -22), Fin(1, 13352651, -25)>>,
    <<Fin(1, 10625571, -22), Fin(1, 13545668, -25)>>,
    <<Fin(1, 10811984, -22), Fin(1, 13799109, -25)>>,
    <<Fin(1, 11072963, -22), Fin(1, 14146681, -25)>>,
    <<Fin(1, 11464431, -22), Fin(1, 14652972, -25)>>,
    <<Fin(1, 11557638, -22), Fin(1, 14770969, -25)>>,
    <<Fin(1, 12163482, -22), Fin(1, 15515503, -25)>>,
    <<Fin(1, 12303292, -22), Fin(1, 15682047, -25)>>,
    <<Fin(1, 12582912, -22), Fin(1, 16009533, -25)>>,
    <<Fin(1, 13002343, -22), Fin(1, 16487363, -25)>>,
    <<Fin(1, 13048946, -22), Fin(1, 16539501, -25)>>,
    <<Fin(1, 13645469, -22), Fin(1, 8595447, -24)>>,
    <<Fin(1, 13794600, -22), Fin(1, 8674646, -24)>>,
    <<Fin(1, 13841203, -22), Fin(1, 8699220, -24)>>,
    <<Fin(1, 13883146, -22), Fin(1, 8721266, -24)>>,
    <<Fin(1, 13893632, -22), Fin(1, 8726768, -24)>>,
    <<Fin(1, 13901122, -22), Fin(1, 8730695, -24)>>,
    <<Fin(1, 13981013, -22), Fin(1, 8772449, -24)>>,
    <<Fin(1, 14190730, -22), Fin(1, 8880933, -24)>>,
    <<Fin(1, 14380471, -22), Fin(1, 8977710, -24)>>,
    <<Fin(1, 14540255, -22), Fin(1, 9058222, -24)>>,
    <<Fin(1, 14596178, -22), Fin(1, 9086192, -24)>>,
    <<Fin(1, 14889779, -22), Fin(1, 9231300, -24)>>,
    <<Fin(1, 14931722, -22), Fin(1, 9251796, -24)>>,
    <<Fin(1, 15059549, -22), Fin(1, 9313906, -24)>>,
    <<Fin(1, 15099495, -22), Fin(1, 9333208, -24)>>,
    <<Fin(1, 15204352, -22), Fin(1, 9383631, -24)>>,
    <<Fin(1, 15472322, -22), Fin(1, 9510930, -24)>>,
    <<Fin(1, 15482975, -22), Fin(1, 9515945, -24)>>,
    <<Fin(1, 15518925, -22), Fin(1, 9532843, -24)>>,
    <<Fin(1, 15569256, -22), Fin(1, 9556436, -24)>>,
    <<Fin(1, 15638762, -22), Fin(1, 9588891, -24)>>,
    <<Fin(1, 16217976, -22), Fin(1, 9853875, -24)>>,
    <<Fin(1, 8481815, -21), Fin(1, 10181403, -24)>>,
    <<Fin(1, 8668228, -21), Fin(1, 10339805, -24)>>,
    <<Fin(1, 9227469, -21), Fin(1, 10795345, -24)>>,
    <<Fin(1, 9320675, -21), Fin(1, 10868573, -24)>>,
    <<Fin(1, 9693503, -21), Fin(1, 11154346, -24)>>,
    <<Fin(1, 10066330, -21), Fin(1, 11429332, -24)>>,
    <<Fin(1, 10401874, -21), Fin(1, 11668246, -24)>>,
    <<Fin(1, 10439157, -21), Fin(1, 11694315, -24)>>,
    <<Fin(1, 10485760, -21), Fin(1, 11726771, -24)>>,
    <<Fin(1, 10695475, -21), Fin(1, 11871058, -24)>>,
    <<Fin(1, 10905191, -21), Fin(1, 12012543, -24)>>,
    <<Fin(1, 11045001, -21), Fin(1, 12105363, -24)>>,
    <<Fin(1, 11184811, -21), Fin(1, 12197015, -24)>>,
    <<Fin(1, 11282678, -21), Fin(1, 12260492, -24)>>,
    <<Fin(1, 11324621, -21), Fin(1, 12287528, -24)>>,
    <<Fin(1, 11534336, -21), Fin(1, 12421225, -24)>>,
    <<Fin(1, 11576279, -21), Fin(1, 12447672, -24)>>,
    <<Fin(1, 11604241, -21), Fin(1, 12465251, -24)>>,
    <<Fin(1, 11650845, -21), Fin(1, 12494454, -24)>>,
    <<Fin(1, 11744051, -21), Fin(1, 12552512, -24)>>,
    <<Fin(1, 11811160, -21), Fin(1, 12594029, -24)>>,
    <<Fin(1, 11911823, -21), Fin(1, 12655865, -24)>>,
    <<Fin(1, 12023671, -21), Fin(1, 12723961, -24)>>,
    <<Fin(1, 12163482, -21), Fin(1, 12808197, -24)>>,
    <<Fin(1, 12396499, -21), Fin(1, 12946460, -24)>>,
    <<Fin(1, 13142153, -21), Fin(1, 13372055, -24)>>,
    <<Fin(1, 13981013, -21), Fin(1, 13822895, -24)>>,
    <<Fin(1, 14353840, -21), Fin(1, 14014649, -24)>>,
    <<Fin(1, 14540255, -21), Fin(1, 14108667, -24)>>,
    <<Fin(1, 14726667, -21), Fin(1, 14201486, -24)>>,
    <<Fin(1, 15099495, -21), Fin(1, 14383653, -24)>>,
    <<Fin(1, 15728640, -21), Fin(1, 14681092, -24)>>,
    <<Fin(1, 16311183, -21), Fin(1, 14946076, -24)>>,
    <<Fin(1, 16567501, -21), Fin(1, 15059684, -24)>>,
    <<Fin(1, 16684010, -21), Fin(1, 15110744, -24)>>,
    <<Fin(1, 8528419, -20), Fin(1, 15271773, -24)>>,
    <<Fin(1, 8738134, -20), Fin(1, 15448776, -24)>>,
    <<Fin(1, 9017754, -20), Fin(1, 15678283, -24)>>,
    <<Fin(1, 9320675, -20), Fin(1, 15919019, -24)>>,
    <<Fin(1, 9507089, -20), Fin(1, 16063306, -24)>>,
    <<Fin(1, 10485760, -20), Fin(1, 8388608, -23)>>,
    <<Fin(1, 10485760, -18), Fin(1, 13439053, -23)>>
}

\* a.log10().
F32Log10(a) ==
    IF IsNaN(a)
    THEN NaN
    ELSE IF IsZero(a)
    THEN Inf(-1)
    ELSE IF a.s = -1
    THEN NaN
    ELSE IF IsInf(a)
    THEN a
    ELSE (CHOOSE p \in Log10Table : p[1] = a)[2]

\* The C32Layout i (from 0) of a raw plane: <<real bytes, imaginary bytes>>.
SampleAt(buffer, i) ==
    <<SubSeq(buffer, 8 * i + 1, 8 * i + 4), SubSeq(buffer, 8 * i + 5, 8 * i + 8)>>

\* amplitude.
amplitude(z) ==
    LET real == F32FromBeBytes(z[1])
        imag == F32FromBeBytes(z[2])
    IN  F32Clamp(F32Sqrt(F32Add(F32Mul(real, real), F32Mul(imag, imag))),
                 F32MIN, F32MAX)

\* Pedf::density_call.
density_call(self, z) ==
    F32Add(F32Mul(self.slope, F32Max(amplitude(z), self.eps)), self.constant)

\* The branch of Pedf::remap on the density, before the cast.
RemapOut(density_remap) ==
    LET half == F32FromNat(127)
    IN  IF F32Le(density_remap, half)
        THEN density_remap
        ELSE F32Mul(F32_0_5, F32Add(density_remap, half))

\* remap with the cast wrapping modulo 256 (as an integer cast would).
remap_Wrapping(self, z) ==
    LET out == RemapOut(density_call(self, z))
    IN  IF IsFin(out) THEN (out.s * TruncMag(out, 65535)) % 256 ELSE 0

\* Pedf::remap.
remap(self, z) == F32AsU8(RemapOut(density_call(self, z)))

\* slope and constant from the mean amplitude: the tail of Pedf::init, which
\* the mosaic calibration of woof.rs repeats.
Calibration(mean) ==
    LET dmin == F32FromNat(30)
        mmult == F32FromNat(40)
    IN  Value({Value({[eps |-> F32_1Em5, slope |-> slope,
                       constant |-> F32Sub(dmin,
                                           F32Mul(slope, F32Log10(c_l)))] :
                      slope \in {F32Div(F32Sub(F32FromNat(255), dmin),
                                        F32Log10(F32Div(F32Mul(mmult, c_l),
                                                        c_l)))}}) :
               c_l \in {F32Mul(F32_0_8, mean)}})

RECURSIVE FiniteSum_Unfiltered(_, _)
\* FiniteSum without the is_finite filter: every amplitude is added.
FiniteSum_Unfiltered(buffer, n) ==
    IF n = 0
    THEN Zero
    ELSE F32Add(FiniteSum_Unfiltered(buffer, n - 1),
                amplitude(SampleAt(buffer, n - 1)))

RECURSIVE FiniteSum(_, _)
\* The fold of Pedf::init over the first n samples: the sum of the
\* amplitudes that are finite.  (The amplitudes of the planes considered
\* add without rounding, so the grouping rayon picks does not matter.)
FiniteSum(buffer, n) ==
    IF n = 0
    THEN Zero
    ELSE LET amp == amplitude(SampleAt(buffer, n - 1))
         IN  IF F32IsFinite(amp)
             THEN F32Add(FiniteSum(buffer, n - 1), amp)
             ELSE FiniteSum(buffer, n - 1)

\* The mean of Pedf::init.
FiniteMean(buffer, n_rows, n_cols) ==
    F32Div(FiniteSum(buffer, n_rows * n_cols), F32FromNat(n_rows * n_cols))

\* Pedf::init.
init(buffer, n_rows, n_cols) == Calibration(FiniteMean(buffer, n_rows, n_cols))

(***************************************************************************)
(* The complex planes the remap is run on.                                 *)
(***************************************************************************)

\* The samples 0 + 0i, 0 + 2i, 7.5 + 10i and NaN + 0i, as bytes.
Samples ==
    << <<0, 0, 0, 0, 0, 0, 0, 0>>,
       <<0, 0, 0, 0, 64, 0, 0, 0>>,
       <<64, 240, 0, 0, 65, 32, 0, 0>>,
       <<127, 192, 0, 0, 0, 0, 0, 0>> >>

RECURSIVE ComplexPlane(_, _, _)
\* The plane of n samples that starts with sample first of Samples (from 0)
\* and steps through Samples by step.
ComplexPlane(first, step, n) ==
    IF n = 0
    THEN <<>>
    ELSE ComplexPlane(first, step, n - 1)
             \o Samples[((first + step * (n - 1)) % Len(Samples)) + 1]

PlaneSteps == 0..2

InitRemap ==
    /\ \E n_rows \in 0..MaxDim, n_cols \in 1..MaxDim,
          first \in 0..(Len(Samples) - 1), step \in PlaneSteps :
          plane = [n_rows |-> n_rows, n_cols |-> n_cols,
                   buffer |-> ComplexPlane(first, step, n_rows * n_cols)]
    /\ pedf = None
    /\ remapped = None
    /\ args = None
    /\ resampled = None
    /\ picture = None
    /\ written = None
    /\ handler = None
    /\ i_seg = 0
    /\ result = None
    /\ tasks = <<>>
    /\ slots = <<>>
    /\ writes = <<>>
    /\ stack = None
    /\ index = <<0, 0>>
    /\ lookup = None
    /\ wrapper = IdleWrapper
    /\ decoded = None
    /\ pc = "ready"

\* The process is killed by a memory fault (SIGSEGV).
Fault == [kind |-> "fault"]

\* Sample i (from 0) lies within the buffer.
InBounds(buffer, i) == 8 * (i + 1) <= Len(buffer)

\* The samples of ArrayView2::from_shape_ptr((n_rows, n_cols), ptr), all of
\* which into_par_iter visits: the shape alone sets them, the length of the
\* buffer is not looked at.
ViewSamples(n_rows, n_cols) == 0..(n_rows * n_cols - 1)

\* What the memory past the end of plane p may hold, up to the end of the
\* view: copies of sample fill of Samples (from 0).
Beyond(p, fill) ==
    ComplexPlane(fill, 0, p.n_rows * p.n_cols - Len(p.buffer) \div 8)

\* Pedf::init runs on the plane.  Where the view reaches past the end of the
\* buffer the reads are undefined behaviour: the process is killed, or the
\* calibration is worked out from whatever the memory holds there.
PedfInit ==
    /\ pc = "ready"
    /\ plane # None
    /\ IF \A i \in ViewSamples(plane.n_rows, plane.n_cols) :
             InBounds(plane.buffer, i)
       THEN /\ pedf' = init(plane.buffer, plane.n_rows, plane.n_cols)
            /\ pc' = "calibrated"
            /\ UNCHANGED result
       ELSE \/ result' = Fault /\ pc' = "done" /\ UNCHANGED pedf
            \/ \E fill \in 0..(Len(Samples) - 1) :
                  /\ pedf' = init(plane.buffer \o Beyond(plane, fill),
                                  plane.n_rows, plane.n_cols)
                  /\ pc' = "calibrated"
                  /\ UNCHANGED result
    /\ UNCHANGED <<parVars, stack, index, lookup, wrapper, decoded, plane, remapped,
                   runVars, handler, i_seg>>

\* Pedf::remap runs on every sample of the plane (read_nodisplay).
RemapPlane ==
    /\ pc = "calibrated"
    /\ plane # None
    /\ remapped' = [i \in 1..(Len(plane.buffer) \div 8) |->
                       remap(pedf, SampleAt(plane.buffer, i - 1))]
    /\ pc' = "done"
    /\ UNCHANGED <<parVars, stack, index, lookup, wrapper, decoded, plane, pedf,
                   runVars, handlerVars>>

NextRemap == PedfInit \/ RemapPlane

SpecRemap == InitRemap /\ [][NextRemap]_vars

\* The planes of a file whose data may end early: the first n_samples whole
\* samples of a plane, for a header that declares n_rows by n_cols.
InitShortPlane ==
    /\ \E n_rows \in 0..MaxDim, n_cols \in 1..MaxDim,
          first \in 0..(Len(Samples) - 1), step \in PlaneSteps :
          \E n_samples \in 0..(n_rows * n_cols) :
             plane = [n_rows |-> n_rows, n_cols |-> n_cols,
                      buffer |-> ComplexPlane(first, step, n_samples)]
    /\ pedf = None
    /\ remapped = None
    /\ args = None
    /\ resampled = None
    /\ picture = None
    /\ written = None
    /\ handler = None
    /\ i_seg = 0
    /\ result = None
    /\ tasks = <<>>
    /\ slots = <<>>
    /\ writes = <<>>
    /\ stack = None
    /\ index = <<0, 0>>
    /\ lookup = None
    /\ wrapper = IdleWrapper
    /\ decoded = None
    /\ pc = "ready"

SpecShortPlane == InitShortPlane /\ [][NextRemap]_vars

----------------------------------------------------------------------------
(***************************************************************************)
(* The mosaic thumbnail: src/woof.rs, run.                                 *)
(*                                                                         *)
(* The mosaic is the StackedArrays of above with the raw complex plane of  *)
(* every segment: [rows, cols, planes].  The sample spacings and angles of *)
(* the SICD metadata enter only through the two resolutions row_res and    *)
(* col_res, which are inputs here.                                         *)
(***************************************************************************)

RECURSIVE SumAmplitude(_, _, _)
\* arr.into_par_iter().map(amplitude).sum::<f32>() over samples lo..hi - 1:
\* rayon splits the samples in halves and adds the sums of the halves.  (The
\* amplitudes of the planes considered add without rounding, so where rayon
\* splits does not matter.)
SumAmplitude(buffer, lo, hi) ==
    IF hi = lo
    THEN Zero
    ELSE IF hi = lo + 1
    THEN amplitude(SampleAt(buffer, lo))
    ELSE F32Add(SumAmplitude(buffer, lo, (lo + hi) \div 2),
                SumAmplitude(buffer, (lo + hi) \div 2, hi))

RECURSIVE SumOfMeans(_, _)
\* The sum over the first n segments of the mean amplitude of each.
SumOfMeans(s, n) ==
    IF n = 0
    THEN Zero
    ELSE F32Add(SumOfMeans(s, n - 1),
                F32Div(SumAmplitude(s.planes[n], 0, s.rows[n] * s.cols[n]),
                       F32FromNat(s.rows[n] * s.cols[n])))

\* The calibration of the mosaic: the mean of the segments' means.
MosaicPedf(s) ==
    Calibration(F32Div(SumOfMeans(s, Len(s.rows)), F32FromNat(Len(s.rows))))

RECURSIVE FloorSqrtFrom(_, _, _)
\* The largest c >= from with c * c * den <= num.
FloorSqrtFrom(num, den, from) ==
    IF (from + 1) * (from + 1) * den > num
    THEN from
    ELSE FloorSqrtFrom(num, den, from + 1)

\* out_cols = (aspect * max_size).sqrt() as u32, with aspect = (n_cols *
\* col_res) / (n_rows * row_res) and max_size = size^2.  (In whole numbers:
\* the f64 arithmetic of the code gives the same on the inputs considered.)
OutCols(n_rows, n_cols, row_res, col_res, size) ==
    FloorSqrtFrom(n_cols * col_res * size * size, n_rows * row_res, 0)

\* out_rows = (max_size / out_cols as f64) as u32, for out_cols >= 1.
OutRows(out_cols, size) == (size * size) \div out_cols

\* The shapes and ratios the resampler works with.
Geometry(s, row_res, col_res, size) ==
    Value({Value({[n_rows |-> n_rows, n_cols |-> n_cols,
                   out_rows |-> OutRows(out_cols, size), out_cols |-> out_cols,
                   x_ratio |-> F32Div(F32FromNat(n_cols), F32FromNat(out_cols)),
                   y_ratio |-> F32Div(F32FromNat(n_rows),
                                      F32FromNat(OutRows(out_cols, size)))] :
                  out_cols \in {OutCols(n_rows, n_cols, row_res, col_res,
                                        size)}}) :
           n_rows \in {SumTo(s.rows, Len(s.rows))}, n_cols \in {s.cols[1]}})

\* (a.ceil() as u32).clamp(lo, hi): the cast is capped at hi, which the
\* clamp would do to every larger value anyway.
CeilClamp(a, lo, hi) == Max(F32CeilAsU32(a, hi), lo)

\* The source box of output cell (outy, outx).
Box(g, outy, outx) ==
    Value({Value({[bottomf |-> bottomf, topf |-> topf, bottom |-> bottom,
                   top |-> CeilClamp(topf, bottom, g.n_rows),
                   leftf |-> leftf, rightf |-> rightf, left |-> left,
                   right |-> CeilClamp(rightf, left, g.n_cols)] :
                  topf \in {F32Add(bottomf, g.y_ratio)},
                  bottom \in {CeilClamp(bottomf, 0, g.n_rows - 1)},
                  rightf \in {F32Add(leftf, g.x_ratio)},
                  left \in {CeilClamp(leftf, 0, g.n_cols - 1)}}) :
           bottomf \in {F32Mul(F32FromNat(outy), g.y_ratio)},
           leftf \in {F32Mul(F32FromNat(outx), g.x_ratio)}})

\* The branch of the resampler a box takes.
CaseOf(b) ==
    IF b.bottom # b.top /\ b.left # b.right
    THEN 1
    ELSE IF b.bottom # b.top THEN 2 ELSE IF b.left # b.right THEN 3 ELSE 4

\* stack[[i_row, i_col]] can be read.
Readable(s, i_row, i_col) == StackedIndex(s, <<i_row, i_col>>).kind = "elem"

\* pedf.remap(&stack[[i_row, i_col]]), for a sample that can be read.
RemapAt(s, p, i_row, i_col) ==
    LET at == StackedIndex(s, <<i_row, i_col>>)
    IN  remap(p, SampleAt(s.planes[at.i_arr + 1],
                          at.i_row * s.cols[at.i_arr + 1] + at.i_col))

RECURSIVE SumRow(_, _, _, _, _)
\* The remapped samples of row r, columns c .. c1 - 1, added up.
SumRow(s, p, r, c, c1) ==
    IF c >= c1 THEN 0 ELSE RemapAt(s, p, r, c) + SumRow(s, p, r, c + 1, c1)

RECURSIVE SumBox(_, _, _, _, _, _)
\* The remapped samples of rows r .. r1 - 1, columns c .. c1 - 1, added up.
SumBox(s, p, r, r1, c, c1) ==
    IF r >= r1
    THEN 0
    ELSE SumRow(s, p, r, c, c1) + SumBox(s, p, r + 1, r1, c, c1)

\* Every sample of rows r .. r1 - 1, columns c .. c1 - 1 can be read.
BoxReadable(s, r, r1, c, c1) ==
    \A i_row \in r..(r1 - 1), i_col \in c..(c1 - 1) : Readable(s, i_row, i_col)

\* (a + b) / 2. of the fractional parts of two edges.
MeanFract(a, b) == F32Div(F32Add(F32Fract(a), F32Fract(b)), F32FromNat(2))

\* fact_a * sum_a as f32 + fact_b * sum_b as f32, as u8.
Blend2(fact_a, sum_a, fact_b, sum_b) ==
    F32AsU8(F32Add(F32Mul(fact_a, F32FromNat(sum_a)),
                   F32Mul(fact_b, F32FromNat(sum_b))))

\* Case1 the other way round: the amplitudes of the box are averaged and
\* the mean is remapped.
Case1_AverageThenRemap(s, p, b) ==
    LET w == b.right - b.left
        count == (b.top - b.bottom) * w
        at(k) == StackedIndex(s, <<b.bottom + (k - 1) \div w,
                                   b.left + ((k - 1) % w)>>)
        acc[k \in 0..count] ==
            IF k = 0
            THEN Zero
            ELSE F32Add(acc[k - 1],
                        amplitude(SampleAt(s.planes[at(k).i_arr + 1],
                                           at(k).i_row * s.cols[at(k).i_arr + 1]
                                               + at(k).i_col)))
        mean == F32Div(acc[count], F32FromNat(count))
    IN  [kind |-> "ok",
         val |-> F32AsU8(RemapOut(F32Add(F32Mul(p.slope, F32Max(mean, p.eps)),
                                         p.constant)))]

\* Case 1: the mean over the box.  (res stays a whole number below 2^24, so
\* the f32 additions of the loop are exact.)
Case1(s, p, b) ==
    LET n == F32FromNat((b.top - b.bottom) * (b.right - b.left))
        res == F32FromNat(SumBox(s, p, b.bottom, b.top, b.left, b.right))
    IN  IF BoxReadable(s, b.bottom, b.top, b.left, b.right)
        THEN [kind |-> "ok", val |-> F32AsU8(F32Div(res, n))]
        ELSE Panicked

\* Case 2: the columns left and left + 1 over the rows of the box.
Case2(s, p, b) ==
    LET sum_left == SumBox(s, p, b.bottom, b.top, b.left, b.left + 1)
        sum_right == SumBox(s, p, b.bottom, b.top, b.left + 1, b.left + 2)
    IN  IF BoxReadable(s, b.bottom, b.top, b.left, b.left + 2)
        THEN Value({[kind |-> "ok",
                     val |-> Blend2(F32Div(F32Sub(F32FromNat(1), fract), rows),
                                    sum_left,
                                    F32Div(fract, rows), sum_right)] :
                    fract \in {MeanFract(b.leftf, b.rightf)},
                    rows \in {F32FromNat(b.top - b.bottom)}})
        ELSE Panicked

\* Case 3: the rows bottom and bottom + 1 over the columns of the box.
Case3(s, p, b) ==
    LET sum_bot == SumBox(s, p, b.bottom, b.bottom + 1, b.left, b.right)
        sum_top == SumBox(s, p, b.bottom + 1, b.bottom + 2, b.left, b.right)
    IN  IF BoxReadable(s, b.bottom, b.bottom + 2, b.left, b.right)
        THEN Value({[kind |-> "ok",
                     val |-> Blend2(F32Div(F32Sub(F32FromNat(1), fract), cols),
                                    sum_bot,
                                    F32Div(fract, cols), sum_top)] :
                    fract \in {MeanFract(b.topf, b.bottomf)},
                    cols \in {F32FromNat(b.right - b.left)}})
        ELSE Panicked

\* The four factors of case 4: <<fact_br, fact_tr, fact_bl, fact_tl>>.
Case4Factors(b) ==
    Value({<<F32Mul(F32Sub(one, fraction_vertical), fraction_horizontal),
             F32Mul(fraction_vertical, fraction_horizontal),
             F32Mul(F32Sub(one, fraction_vertical),
                    F32Sub(one, fraction_horizontal)),
             F32Mul(fraction_vertical, F32Sub(one, fraction_horizontal))>> :
           fraction_horizontal \in {MeanFract(b.topf, b.bottomf)},
           fraction_vertical \in {MeanFract(b.leftf, b.rightf)},
           one \in {F32FromNat(1)}})

\* fact_br * k_br + fact_tr * k_tr + fact_bl * k_bl + fact_tl * k_tl, as u8;
\* f is <<fact_br, fact_tr, fact_bl, fact_tl>>.
Blend4(f, k_br, k_tr, k_bl, k_tl) ==
    F32AsU8(F32Add(F32Add(F32Add(F32Mul(f[1], k_br), F32Mul(f[2], k_tr)),
                          F32Mul(f[3], k_bl)),
                   F32Mul(f[4], k_tl)))

\* Case 4: the four samples around (bottom, left).
Case4(s, p, b) ==
    LET f == Case4Factors(b)
        k_bl == F32FromNat(RemapAt(s, p, b.bottom, b.left))
        k_tl == F32FromNat(RemapAt(s, p, b.bottom + 1, b.left))
        k_br == F32FromNat(RemapAt(s, p, b.bottom, b.left + 1))
        k_tr == F32FromNat(RemapAt(s, p, b.bottom + 1, b.left + 1))
    IN  IF BoxReadable(s, b.bottom, b.bottom + 2, b.left, b.left + 2)
        THEN [kind |-> "ok", val |-> Blend4(f, k_br, k_tr, k_bl, k_tl)]
        ELSE Panicked

\* The closure of par_for_each on output cell (outy, outx).
ResampleCell(s, p, g, outy, outx) ==
    Value({CASE CaseOf(b) = 1 -> Case1(s, p, b)
             [] CaseOf(b) = 2 -> Case2(s, p, b)
             [] CaseOf(b) = 3 -> Case3(s, p, b)
             [] OTHER -> Case4(s, p, b) :
           b \in {Box(g, outy, outx)}})

\* Zip::indexed(&mut out).par_for_each: every cell by its own task; a panic
\* of one task is a panic of the run.  data is out in row-major order.
Resample(s, p, g) ==
    Value({IF \E i \in DOMAIN cells : cells[i].kind = "panic"
           THEN Panicked
           ELSE [kind |-> "ok", rows |-> g.out_rows, cols |-> g.out_cols,
                 data |-> [i \in DOMAIN cells |-> cells[i].val]] :
           cells \in {[i \in 1..(g.out_rows * g.out_cols) |->
                          ResampleCell(s, p, g, (i - 1) \div g.out_cols,
                                       (i - 1) % g.out_cols)]}})

\* RgbaImage::new(out_cols, out_rows) filled with Rgba([data; 3], 255).
GrayImage(o) ==
    [width |-> o.cols, height |-> o.rows,
     buf |-> [i \in DOMAIN o.data |-> <<o.data[i], o.data[i], o.data[i], 255>>]]

\* clamp of the image crate on whole numbers.
ClampInt(a, lo, hi) == IF a < lo THEN lo ELSE IF a > hi THEN hi ELSE a

\* image::imageops::colorops::brighten_in_place: value is added to the three
\* colour channels, clamped to 0..255; alpha stays.
brighten_in_place(img, value) ==
    [img EXCEPT !.buf =
        [i \in DOMAIN img.buf |->
            <<ClampInt(img.buf[i][1] + value, 0, 255),
              ClampInt(img.buf[i][2] + value, 0, 255),
              ClampInt(img.buf[i][3] + value, 0, 255),
              img.buf[i][4]>>]]

\* One colour channel under contrast_in_place: ((c / 255 - 0.5) * percent +
\* 0.5) * 255 in f32, clamped to 0..255, as u8.
ContrastChannel(c, percent) ==
    LET max == F32FromNat(255)
        d == F32Mul(F32Add(F32Mul(F32Sub(F32Div(F32FromNat(c), max), F32_0_5),
                                  percent),
                           F32_0_5),
                    max)
    IN  F32AsU8(d)

\* image::imageops::colorops::contrast_in_place, for a finite contrast:
\* percent = ((100 + contrast) / 100)^2; the map runs over the four
\* channels of a pixel, alpha included.
contrast_in_place(img, contrast) ==
    Value({[img EXCEPT !.buf =
               [i \in DOMAIN img.buf |->
                   [c \in 1..4 |-> ContrastChannel(img.buf[i][c], percent)]]] :
           percent \in {Value({F32Mul(ratio, ratio) :
                               ratio \in {F32Div(F32Add(F32FromNat(100),
                                                        contrast),
                                                 F32FromNat(100))}})}})

\* contrast_in_place before brighten_in_place.
Adjust_ContrastFirst(img, a) ==
    LET contrasted == IF a.contrast # Zero
                      THEN contrast_in_place(img, a.contrast)
                      ELSE img
    IN  IF a.brightness # 0
        THEN brighten_in_place(contrasted, a.brightness)
        ELSE contrasted

\* The two adjustments as every pipeline applies them: brighten_in_place if
\* args.brightness != 0, then contrast_in_place if args.contrast != 0.0.
Adjust(img, a) ==
    LET brightened == IF a.brightness # 0
                      THEN brighten_in_place(img, a.brightness)
                      ELSE img
    IN  IF a.contrast # Zero
        THEN contrast_in_place(brightened, a.contrast)
        ELSE brightened

MaxStackRows == 4       \* rows of the mosaic of a thumbnail
MaxStackCols == 4       \* columns of the mosaic of a thumbnail
MaxSize == 6            \* args.size of a thumbnail
MaxWideCols == 6        \* columns of the mosaic of a wide thumbnail
MaxWideSize == 7        \* args.size of a wide thumbnail

\* The mosaics' row counts: one segment, or a first segment of one row.
ThumbRowLists ==
    {<<n>> : n \in 1..MaxStackRows} \cup {<<1, n - 1>> : n \in 2..MaxStackRows}

\* <<row_res, col_res>>: square samples, and columns three times as wide.
Resolutions == {<<1, 1>>, <<1, 3>>}

\* The sample patterns of a mosaic: sample k is Samples[first + k % period].
MosaicFirsts == 0..1
MosaicPeriods == 1..3

RECURSIVE PatternPlane(_, _, _, _)
\* Samples from..(from + n - 1) of the pattern, as bytes.
PatternPlane(first, period, from, n) ==
    IF n = 0
    THEN <<>>
    ELSE PatternPlane(first, period, from, n - 1)
             \o Samples[first + ((from + n - 1) % period) + 1]

\* The start of a thumbnail run: a mosaic with a sample pattern, and the
\* arguments; only runs with out_cols >= 1 are considered.
InitThumb(rowLists, columns, sizes, brightnesses, contrasts) ==
    /\ \E rows \in rowLists, c \in columns,
          first \in MosaicFirsts, period \in MosaicPeriods :
          stack = [rows |-> rows, cols |-> [i \in 1..Len(rows) |-> c],
                   planes |-> [i \in 1..Len(rows) |->
                                  PatternPlane(first, period,
                                               c * SumTo(rows, i - 1),
                                               c * rows[i])]]
    /\ \E size \in sizes, res \in Resolutions,
          brightness \in brightnesses, contrast \in contrasts :
          /\ args = [size |-> size, row_res |-> res[1], col_res |-> res[2],
                     brightness |-> brightness, contrast |-> contrast]
          /\ OutCols(SumTo(stack.rows, Len(stack.rows)), stack.cols[1],
                     res[1], res[2], size) >= 1
    /\ pedf = None
    /\ resampled = None
    /\ picture = None
    /\ written = <<>>
    /\ handler = None
    /\ i_seg = 0
    /\ result = None
    /\ tasks = <<>>
    /\ slots = <<>>
    /\ writes = <<>>
    /\ index = <<0, 0>>
    /\ lookup = None
    /\ wrapper = IdleWrapper
    /\ decoded = None
    /\ plane = None
    /\ remapped = None
    /\ pc = "ready"

\* Thumbnail runs without adjustments.
InitResample ==
    InitThumb(ThumbRowLists, 1..MaxStackCols, 1..MaxSize, {0}, {Zero})

\* woof::run, lines 102-126: the calibration of the mosaic.
ThumbCalibrate ==
    /\ pc = "ready"
    /\ pedf' = MosaicPedf(stack)
    /\ pc' = "calibrated"
    /\ UNCHANGED <<parVars, stack, index, lookup, wrapper, decoded, plane, remapped,
                   runVars, handlerVars>>

\* woof::run, lines 167-255: the output shape and the parallel resampling.
\* A panic of a cell ends the run.
ThumbResample ==
    /\ pc = "calibrated"
    /\ resampled' = Resample(stack, pedf,
                       Geometry(stack, args.row_res, args.col_res, args.size))
    /\ IF resampled'.kind = "panic"
       THEN result' = Panicked /\ pc' = "done"
       ELSE pc' = "resampled" /\ UNCHANGED result
    /\ UNCHANGED <<parVars, stack, index, lookup, wrapper, decoded, remapVars,
                   args, picture, written, handler, i_seg>>

\* woof::run, lines 257-272: the image and its adjustments.
ThumbAdjust ==
    /\ pc = "resampled"
    /\ picture' = Adjust(GrayImage(resampled), args)
    /\ pc' = "adjusted"
    /\ UNCHANGED <<parVars, stack, index, lookup, wrapper, decoded, remapVars,
                   args, resampled, written, handlerVars>>

\* woof::run, lines 274-277: image.save(&out_file)?.
ThumbSave ==
    /\ pc = "adjusted"
    /\ \/ result' = Err(<<"Io">>) /\ UNCHANGED written
       \/ /\ written' = <<[kind |-> "png", name |-> <<"stem", args.size>>,
                           image |-> picture]>>
          /\ result' = [kind |-> "ok"]
    /\ pc' = "done"
    /\ UNCHANGED <<parVars, stack, index, lookup, wrapper, decoded, remapVars,
                   args, resampled, picture, handler, i_seg>>

NextResample == ThumbCalibrate \/ ThumbResample \/ ThumbAdjust \/ ThumbSave

SpecResample == InitResample /\ [][NextResample]_vars

\* Thumbnail runs of the tallest mosaics with more columns and a larger size.
InitWide ==
    InitThumb({rows \in ThumbRowLists :
                  SumTo(rows, Len(rows)) = MaxStackRows},
              (MaxStackCols + 1)..MaxWideCols, (MaxSize + 1)..MaxWideSize,
              {0}, {Zero})

SpecWide == InitWide /\ [][NextResample]_vars

----------------------------------------------------------------------------
(***************************************************************************)
(* The per-segment pipeline: src/handler.rs, Handler and run, with         *)
(* ImageWrapper::get_image.                                                *)
(*                                                                         *)
(* written is the sequence of the files a run has written: a still image   *)
(* is [kind |-> "png", name, image], an animation [kind |-> "gif", name,   *)
(* repeat, frames].  The calls that leave the program (File::create,       *)
(* image.save, encode_frame) succeed or fail, whichever the moment brings. *)
(***************************************************************************)

\* The largest whole number of the model, where the code saturates at
\* u32::MAX; no cast considered comes near it.
U32Cap == 2147483647

\* `a as u32`: the whole part toward zero, saturated; NaN is 0.
F32AsU32(a) ==
    IF IsNaN(a) THEN 0
    ELSE IF IsInf(a) THEN (IF a.s = 1 THEN U32Cap ELSE 0)
    ELSE IF a.s = -1 THEN 0 ELSE TruncMag(a, U32Cap)

\* image::imageops::thumbnail of a raster whose pixels are all alike: the
\* raster of the new size with the same pixels.
thumbnail(image, new_width, new_height) ==
    [width |-> new_width, height |-> new_height,
     buf |-> [i \in 1..(new_width * new_height) |-> image.buf[1]]]

\* The thumbnail dimensions of get_image: aspect, max_size, new_width and
\* new_height, in f32 with the casts to u32.
ThumbnailTarget(w, size) ==
    LET aspect == F32Div(F32FromNat(w.ncols), F32FromNat(w.nrows))
        max_size == F32FromNat(size * size)
    IN  Value({[new_width |-> new_width,
                new_height |-> F32AsU32(F32Div(max_size,
                                               F32FromNat(new_width)))] :
               new_width \in {F32AsU32(F32Sqrt(F32Mul(aspect, max_size)))}})

\* ImageWrapper::get_image: read_image, then the thumbnail.  The handler
\* calls the copy of ImageWrapper that handler.rs holds; on the unblocked
\* one-pixel MONO segments of SegmentWrappers its read_image decodes as the
\* one of image_wrapper.rs does, and the thumbnail arithmetic is the same.
get_image(w, size) ==
    Value({IF r.kind = "ok"
           THEN Ok(thumbnail(r.image, t.new_width, t.new_height))
           ELSE r :
           r \in {read_image(w)}, t \in {ThumbnailTarget(w, size)}})

\* Handler::get_image: the thumbnail of segment i_seg (from 0), adjusted.
HandlerGetImage(self, seg) ==
    Value({IF r.kind = "ok" THEN Ok(Adjust(r.image, self)) ELSE r :
           r \in {get_image(self.wrappers[seg + 1], self.size)}})

\* VizError of a failed File::create, image.save or encode_frame.
ErrIo == Err(<<"Io">>)

\* Ok(()) of run.
OkUnit == [kind |-> "ok"]

\* An unblocked MONO segment of one pixel.
MonoWrapper(byte, nbpp) ==
    [nrows |-> 1, ncols |-> 1, irep |-> "MONO", nbands |-> 1, nbpp |-> nbpp,
     nbpc |-> 1, nbpr |-> 1, bands |-> <<NoLutBand>>, nppbh |-> 1,
     nppbv |-> 1, data |-> <<byte>>]

\* The segments of a file: two that decode, and one that does not.
SegmentWrappers == {MonoWrapper(100, 8), MonoWrapper(200, 8), MonoWrapper(100, 12)}

\* The adjustments asked for.
Brightnesses == {0, 40}
Contrasts == {Zero, F32FromNat(50)}

\* Handler::try_from has built the handler from the arguments and the file
\* (numi is the number of segments the file holds).
InitHandler ==
    /\ \E wrappers \in SeqsUpTo(SegmentWrappers, MaxSegments),
          size \in 1..MaxDim, individual \in BOOLEAN,
          brightness \in Brightnesses, contrast \in Contrasts :
          /\ args = [size |-> size, individual |-> individual,
                     brightness |-> brightness, contrast |-> contrast]
          /\ handler = [numi |-> Len(wrappers), wrappers |-> wrappers,
                        size |-> size, brightness |-> brightness,
                        contrast |-> contrast]
    /\ i_seg = 0
    /\ result = None
    /\ tasks = <<>>
    /\ slots = <<>>
    /\ writes = <<>>
    /\ picture = None
    /\ written = <<>>
    /\ resampled = None
    /\ stack = None
    /\ index = <<0, 0>>
    /\ lookup = None
    /\ wrapper = IdleWrapper
    /\ decoded = None
    /\ plane = None
    /\ pedf = None
    /\ remapped = None
    /\ pc = "run"

\* The run is over with result r.
Return(r) == result' = r /\ pc' = "done"

\* The loop over the segments goes on, or the run returns Ok(()).
NextSegment ==
    IF handler.numi = 1 \/ i_seg + 1 >= handler.numi
    THEN Return(OkUnit) /\ UNCHANGED i_seg
    ELSE i_seg' = i_seg + 1 /\ pc' = "get_image" /\ UNCHANGED result

\* run, lines 432-443: the choice of the output, and the head of
\* multi_segment (File::create, GifEncoder, set_repeat).
RunDispatch ==
    /\ pc = "run"
    /\ IF handler.numi = 1 \/ (args.individual /\ handler.numi > 0)
       THEN pc' = "get_image" /\ UNCHANGED <<written, result>>
       ELSE IF args.individual
       THEN Return(OkUnit) /\ UNCHANGED written
       ELSE \/ Return(ErrIo) /\ UNCHANGED written
            \/ /\ written' = <<[kind |-> "gif", name |-> <<"stem", args.size>>,
                               repeat |-> "Infinite", frames |-> <<>>]>>
               /\ IF handler.numi = 0
                  THEN Return(OkUnit)
                  ELSE pc' = "get_image" /\ UNCHANGED result
    /\ UNCHANGED <<parVars, stack, index, lookup, wrapper, decoded, remapVars, args,
                   resampled, picture, handler, i_seg>>

\* self.get_image(i_seg)? of single_segment and of multi_segment.
GetImage ==
    /\ pc = "get_image"
    /\ \E r \in {HandlerGetImage(handler, i_seg)} :
          IF r.kind = "ok"
          THEN /\ picture' = r.image
               /\ pc' = IF handler.numi = 1 \/ args.individual
                        THEN "save" ELSE "encode"
               /\ UNCHANGED result
          ELSE Return(r) /\ UNCHANGED picture
    /\ UNCHANGED <<parVars, stack, index, lookup, wrapper, decoded, remapVars, args,
                   resampled, written, handler, i_seg>>

\* single_segment, lines 330-334: image.save(&out_file)?.
SaveStill ==
    /\ pc = "save"
    /\ \/ Return(ErrIo) /\ UNCHANGED <<written, i_seg>>
       \/ /\ written' = Append(written,
                               [kind |-> "png",
                                name |-> IF handler.numi = 1
                                         THEN <<"stem", args.size>>
                                         ELSE <<"stem", i_seg, args.size>>,
                                image |-> picture])
          /\ NextSegment
    /\ UNCHANGED <<parVars, stack, index, lookup, wrapper, decoded, remapVars, args,
                   resampled, picture, handler>>

\* multi_segment, lines 346-347: let _ = encoder.encode_frame(frame); the
\* result is dropped.
EncodeFrame ==
    /\ pc = "encode"
    /\ \/ UNCHANGED written
       \/ written' = [written EXCEPT ![1].frames = Append(@, picture)]
    /\ NextSegment
    /\ UNCHANGED <<parVars, stack, index, lookup, wrapper, decoded, remapVars, args,
                   resampled, picture, handler>>

NextHandler == RunDispatch \/ GetImage \/ SaveStill \/ EncodeFrame

\* Thumbnail runs of small mosaics, with adjustments.
InitSmallThumb ==
    InitThumb({rows \in ThumbRowLists : SumTo(rows, Len(rows)) <= MaxDim},
              1..MaxDim, 1..MaxDim, Brightnesses, Contrasts)

\* Both pipelines: a run of handler::run or a run of woof::run.
InitRun == InitHandler \/ InitSmallThumb

NextRun == NextHandler \/ NextResample

SpecRun == InitRun /\ [][NextRun]_vars

----------------------------------------------------------------------------
(***************************************************************************)
(* The data-parallel loops: read_mono's par_iter().zip(par_pixels_mut())   *)
(* and the resampler's Zip::indexed(&mut out).par_for_each.                *)
(*                                                                         *)
(* A loop forks one task per item; the scheduler runs the tasks in any     *)
(* order and interleaves them.  A task computes its value from the shared  *)
(* inputs (the raw plane; the mosaic and the calibration), then writes it  *)
(* to the cell the loop handed to it.  slots is the output the tasks write *)
(* to, writes counts the writes every cell of it has taken.                *)
(***************************************************************************)

MaxTasks == 4           \* tasks of one parallel loop

\* Every task handed the first cell of the output.
TaskCell_Shared(i) == 1

\* The cell (from 1) of the output that the loop hands to task i (from 1):
\* zip pairs the i-th byte with the i-th pixel, Zip::indexed the i-th index
\* with the i-th element.
TaskCell(i) == i

\* The tasks of a loop over n items, none of them started.
Fork(n) == [i \in 1..n |-> [pc |-> "start", elem |-> 0]]

AllDone == \A i \in DOMAIN tasks : tasks[i].pc = "done"

\* Task i has computed elem.
Computed(i, elem) == [tasks EXCEPT ![i] = [pc |-> "computed", elem |-> elem]]

\* Task i writes px to its cell and ends.
WriteCell(i, px) ==
    /\ slots' = [slots EXCEPT ![TaskCell(i)] = px]
    /\ writes' = [writes EXCEPT ![TaskCell(i)] = @ + 1]
    /\ tasks' = [tasks EXCEPT ![i].pc = "done"]

\* read_image is about to call read_mono on an unblocked MONO segment.
InitParMono ==
    /\ \E nrows \in 1..MaxDim, ncols \in 1..MaxDim, data \in RawPlanes :
          /\ Min(Len(data), nrows * ncols) <= MaxTasks
          /\ wrapper = [nrows |-> nrows, ncols |-> ncols, irep |-> "MONO",
                        nbands |-> 1, nbpp |-> 8, nbpc |-> 1, nbpr |-> 1,
                        bands |-> <<NoLutBand>>, nppbh |-> ncols,
                        nppbv |-> nrows, data |-> data]
    /\ decoded = None
    /\ stack = None
    /\ index = <<0, 0>>
    /\ lookup = None
    /\ plane = None
    /\ pedf = None
    /\ remapped = None
    /\ args = None
    /\ resampled = None
    /\ picture = None
    /\ written = None
    /\ handler = None
    /\ i_seg = 0
    /\ result = None
    /\ tasks = <<>>
    /\ slots = <<>>
    /\ writes = <<>>
    /\ pc = "read_mono"

\* RgbaImage::new of read_image, and read_mono's zip: one task per byte
\* that has a pixel.
MonoFork ==
    /\ pc = "read_mono"
    /\ slots' = NewImage(ImageCols(wrapper), ImageRows(wrapper)).buf
    /\ tasks' = Fork(Min(Len(wrapper.data), Len(slots')))
    /\ writes' = [c \in DOMAIN slots' |-> 0]
    /\ pc' = "par_mono"
    /\ UNCHANGED <<stack, index, lookup, wrapper, decoded, remapVars, runVars,
                   handlerVars>>

\* The closure of read_mono reads its byte.
MonoRead(i) ==
    /\ pc = "par_mono"
    /\ tasks[i].pc = "start"
    /\ tasks' = Computed(i, wrapper.data[i])
    /\ UNCHANGED <<slots, writes, stack, index, lookup, wrapper, decoded,
                   remapVars, runVars, handlerVars, pc>>

\* The closure of read_mono writes its pixel.
MonoWrite(i) ==
    /\ pc = "par_mono"
    /\ tasks[i].pc = "computed"
    /\ WriteCell(i, <<tasks[i].elem, tasks[i].elem, tasks[i].elem, U8Max>>)
    /\ UNCHANGED <<stack, index, lookup, wrapper, decoded, remapVars, runVars,
                   handlerVars, pc>>

\* for_each returns when every task has ended; read_image returns the raster.
MonoJoin ==
    /\ pc = "par_mono"
    /\ AllDone
    /\ decoded' = Ok([width |-> ImageCols(wrapper),
                      height |-> ImageRows(wrapper), buf |-> slots])
    /\ pc' = "done"
    /\ UNCHANGED <<parVars, stack, index, lookup, wrapper, remapVars, runVars,
                   handlerVars>>

\* The shape of out in a thumbnail run.
OutGeometry == Geometry(stack, args.row_res, args.col_res, args.size)

\* Thumbnail runs whose out has at most MaxTasks cells.
InitParResample ==
    /\ InitThumb({rows \in ThumbRowLists : SumTo(rows, Len(rows)) <= MaxDim + 1},
                 1..(MaxDim + 1), 1..MaxDim, {0}, {Zero})
    /\ OutGeometry.out_rows * OutGeometry.out_cols <= MaxTasks

\* Array2::zeros and Zip::indexed(&mut out).par_for_each: one task per cell.
ResampleFork ==
    /\ pc = "calibrated"
    /\ slots' = [c \in 1..(OutGeometry.out_rows * OutGeometry.out_cols) |-> 0]
    /\ tasks' = Fork(Len(slots'))
    /\ writes' = [c \in DOMAIN slots' |-> 0]
    /\ pc' = "par_resample"
    /\ UNCHANGED <<stack, index, lookup, wrapper, decoded, remapVars, runVars,
                   handlerVars>>

\* The closure of the resampler computes the value of its cell from the
\* mosaic and the calibration; a read out of range panics, and the panic
\* of a task is the panic of the run.
CellCompute(i) ==
    /\ pc = "par_resample"
    /\ tasks[i].pc = "start"
    /\ \E g \in {OutGeometry} :
          \E v \in {ResampleCell(stack, pedf, g, (i - 1) \div g.out_cols,
                                 (i - 1) % g.out_cols)} :
             IF v.kind = "panic"
             THEN result' = Panicked /\ pc' = "done" /\ UNCHANGED tasks
             ELSE tasks' = Computed(i, v.val) /\ UNCHANGED <<result, pc>>
    /\ UNCHANGED <<slots, writes, stack, index, lookup, wrapper, decoded,
                   remapVars, runVars, handler, i_seg>>

\* The closure of the resampler writes *elem.
CellWrite(i) ==
    /\ pc = "par_resample"
    /\ tasks[i].pc = "computed"
    /\ WriteCell(i, tasks[i].elem)
    /\ UNCHANGED <<stack, index, lookup, wrapper, decoded, remapVars, runVars,
                   handlerVars, pc>>

\* par_for_each returns when every task has ended: out is complete.
ResampleJoin ==
    /\ pc = "par_resample"
    /\ AllDone
    /\ resampled' = [kind |-> "ok", rows |-> OutGeometry.out_rows,
                     cols |-> OutGeometry.out_cols, data |-> slots]
    /\ pc' = "resampled"
    /\ UNCHANGED <<parVars, stack, index, lookup, wrapper, decoded, remapVars,
                   args, picture, written, handlerVars>>

InitParallel == InitParMono \/ InitParResample

NextParallel ==
    \/ MonoFork
    \/ \E i \in 1..Len(tasks) : MonoRead(i)
    \/ \E i \in 1..Len(tasks) : MonoWrite(i)
    \/ MonoJoin
    \/ ThumbCalibrate
    \/ ResampleFork
    \/ \E i \in 1..Len(tasks) : CellCompute(i)
    \/ \E i \in 1..Len(tasks) : CellWrite(i)
    \/ ResampleJoin

SpecParallel == InitParallel /\ [][NextParallel]_vars

----------------------------------------------------------------------------
(***************************************************************************)
(* ImageWrapper::get_image on blocked and unblocked segments.              *)
(*                                                                         *)
(* decoded is what read_image returned; picture holds the width and the    *)
(* height of the thumbnail get_image returned (its pixels are those        *)
(* image::imageops::thumbnail samples, and are left out).                  *)
(***************************************************************************)

\* The raw planes of the segments: empty, and as long as a plane gets.
ThumbnailPlanes == {[i \in 1..n |-> PlaneByte(0, i)] : n \in {0, MaxLen}}

\* A MONO segment of any block geometry, and the size asked for.
InitGetImage ==
    /\ \E nrows \in 1..(MaxDim + 1), ncols \in 1..(MaxDim + 1),
          nbpp \in {8, 12},
          nbpr \in BlockCounts, nbpc \in BlockCounts,
          nppbh \in 0..MaxBlockDim, nppbv \in 0..MaxBlockDim,
          data \in ThumbnailPlanes :
          wrapper = [nrows |-> nrows, ncols |-> ncols, irep |-> "MONO",
                     nbands |-> 1, nbpp |-> nbpp,
                     nbpc |-> nbpc, nbpr |-> nbpr, bands |-> <<NoLutBand>>,
                     nppbh |-> nppbh, nppbv |-> nppbv, data |-> data]
    /\ \E size \in 1..MaxSize :
          args = [size |-> size, individual |-> FALSE, brightness |-> 0,
                  contrast |-> Zero]
    /\ decoded = None
    /\ picture = None
    /\ stack = None
    /\ index = <<0, 0>>
    /\ lookup = None
    /\ plane = None
    /\ pedf = None
    /\ remapped = None
    /\ resampled = None
    /\ written = <<>>
    /\ handler = None
    /\ i_seg = 0
    /\ result = None
    /\ tasks = <<>>
    /\ slots = <<>>
    /\ writes = <<>>
    /\ pc = "ready"

\* ImageWrapper::get_image runs on the wrapper: read_image, whose error or
\* panic is get_image's, then the thumbnail of the target dimensions.
WrapperGetImage ==
    /\ pc = "ready"
    /\ decoded' = read_image(wrapper)
    /\ picture' = IF decoded'.kind = "ok"
                  THEN [width |-> ThumbnailTarget(wrapper, args.size).new_width,
                        height |-> ThumbnailTarget(wrapper, args.size).new_height]
                  ELSE None
    /\ pc' = "done"
    /\ UNCHANGED <<parVars, stack, index, lookup, wrapper, remapVars, args,
                   resampled, written, handlerVars>>

NextGetImage == WrapperGetImage

SpecGetImage == InitGetImage /\ [][NextGetImage]_vars

----------------------------------------------------------------------------
(***************************************************************************)
(* Mosaic row resolution.                                                  *)
(***************************************************************************)

\* The total row count of the mosaic.
TotalRows == SumTo(stack.rows, Len(stack.rows))

\* A lookup of operation op has returned (or aborted).
LookedUp(op) == pc = "done" /\ lookup # None /\ lookup.op = op

\* C1: arr_row_idx resolves every global row g below the total row count to
\* (s, l) with (sum of the row counts before segment s) + l = g and
\* l < rows[s]; row counts [100, 50, 30] resolve 120 to (1, 20) and 179 to
\* (2, 29).
C1_RowResolution ==
    (LookedUp("arr_row_idx") /\ index[1] < TotalRows) =>
        /\ lookup.res.kind = "ok"
        /\ lookup.res.i_arr \in 0..(Len(stack.rows) - 1)
        /\ SumTo(stack.rows, lookup.res.i_arr) + lookup.res.i_row = index[1]
        /\ lookup.res.i_row >= 0
        /\ lookup.res.i_row < stack.rows[lookup.res.i_arr + 1]
        /\ (stack.rows = ExampleRows /\ index[1] = 120) =>
              (lookup.res.i_arr = 1 /\ lookup.res.i_row = 20)
        /\ (stack.rows = ExampleRows /\ index[1] = 179) =>
              (lookup.res.i_arr = 2 /\ lookup.res.i_row = 29)

\* Row 179 of the example mosaic has been resolved into its last segment.
C1_Witness ==
    /\ LookedUp("arr_row_idx")
    /\ stack.rows = ExampleRows
    /\ index[1] = 179
    /\ lookup.res.kind = "ok"
    /\ lookup.res.i_arr = 2

\* C2: resolving a global row at or past the total row count hands a
\* RowOutOfRange error value back to the caller: the lookup neither aborts
\* the process nor indexes a segment.
C2_RowOutOfRangeIsAnError ==
    (pc = "done" /\ lookup # None /\ index[1] >= TotalRows) =>
        (lookup.res.kind = "err" /\ lookup.res.error = "RowOutOfRange")

----------------------------------------------------------------------------
(***************************************************************************)
(* The decoder's contract.                                                 *)
(***************************************************************************)

\* read_image has returned (or aborted).
Decoded == pc = "done" /\ decoded # None

\* read_image has returned a raster.
Rastered == Decoded /\ decoded.kind = "ok"

Unblocked == wrapper.nbpr = 1 /\ wrapper.nbpc = 1

\* The pixels of a raster, by their place in the buffer.
Pixels(image) == 1..Len(image.buf)

\* The pixel of a raster at (x, y).
PixelAt(image, x, y) == image.buf[y * image.width + x + 1]

\* C3: in an unblocked MONO decode every pixel i of the raster is
\* (v, v, v, 255), v being byte i of the raw plane, and every pixel of the
\* returned raster has alpha 255.
C3_MonoEveryPixelOpaque ==
    (Rastered /\ Unblocked /\ wrapper.irep = "MONO") =>
        \A i \in Pixels(decoded.image) :
            /\ decoded.image.buf[i][4] = 255
            /\ i <= Len(wrapper.data) =>
                  decoded.image.buf[i] =
                      <<wrapper.data[i], wrapper.data[i], wrapper.data[i], 255>>

\* C3, amended: pixel i is (v, v, v, 255) for every i within the raw plane;
\* the pixels past the end of the raw plane stay (0, 0, 0, 0).
C3_MonoPixelPerByte ==
    (Rastered /\ Unblocked /\ wrapper.irep = "MONO") =>
        \A i \in Pixels(decoded.image) :
            decoded.image.buf[i] =
                IF i <= Len(wrapper.data)
                THEN <<wrapper.data[i], wrapper.data[i], wrapper.data[i], 255>>
                ELSE <<0, 0, 0, 0>>

\* An unblocked MONO raster of four pixels decoded from three bytes.
C3_Witness ==
    /\ Rastered /\ Unblocked /\ wrapper.irep = "MONO"
    /\ Len(decoded.image.buf) = 4
    /\ Len(wrapper.data) = 3
    /\ decoded.image.buf[3] = <<170, 170, 170, 255>>

\* C4: in an unblocked RGB decode pixel i is (r, g, b, 255), (r, g, b) being
\* bytes 3i, 3i+1, 3i+2 of the raw plane (i from 0), in that order.
C4_RgbPixelPerTriplet ==
    (Rastered /\ Unblocked /\ wrapper.irep = "RGB") =>
        \A i \in Pixels(decoded.image) :
            3 * i <= Len(wrapper.data) =>
                decoded.image.buf[i] =
                    <<wrapper.data[3 * i - 2], wrapper.data[3 * i - 1],
                      wrapper.data[3 * i], 255>>

\* An unblocked RGB raster whose second pixel holds bytes 3, 4 and 5.
C4_Witness ==
    /\ Rastered /\ Unblocked /\ wrapper.irep = "RGB"
    /\ Len(decoded.image.buf) >= 2
    /\ Len(wrapper.data) >= 6
    /\ decoded.image.buf[2] = <<255, 84, 169, 255>>

----------------------------------------------------------------------------
(***************************************************************************)
(* The blocked path as the specification describes it: a pixel of the      *)
(* raster, the tile that holds it and the sample of the tile it is.        *)
(***************************************************************************)

\* Chunk size: bytes-per-pixel x block-width x block-height x band-count.
TileBytes ==
    (wrapper.nbpp \div 8) * wrapper.nppbh * wrapper.nppbv * wrapper.nbands

\* The tiles decoded: one per chunk the raw plane holds, at most
\* blocks-per-row x blocks-per-column.
TilesDecoded ==
    Min(wrapper.nbpr * wrapper.nbpc, Len(wrapper.data) \div TileBytes)

\* The samples of a tile that are written: a byte each for MONO and RGBLUT,
\* three bytes each for RGB, at most block-width x block-height.
TileSamples ==
    Min(IF wrapper.irep = "RGB" THEN TileBytes \div 3 ELSE TileBytes,
        wrapper.nppbh * wrapper.nppbv)

\* Byte n (from 0) of chunk k (from 0).
TileByte(k, n) == wrapper.data[k * TileBytes + n + 1]

\* The colour of sample j (from 0) of chunk k (from 0).
TileColour(k, j) ==
    CASE wrapper.irep = "MONO" ->
            <<TileByte(k, j), TileByte(k, j), TileByte(k, j)>>
      [] wrapper.irep = "RGB" ->
            <<TileByte(k, 3 * j), TileByte(k, 3 * j + 1), TileByte(k, 3 * j + 2)>>
      [] wrapper.irep = "RGBLUT" ->
            <<LutEntry(wrapper.bands[1].lutd[1], TileByte(k, j)),
              LutEntry(wrapper.bands[1].lutd[2], TileByte(k, j)),
              LutEntry(wrapper.bands[1].lutd[3], TileByte(k, j))>>

\* The tile (from 0, in row-major block order) that holds pixel (x, y), and
\* the sample (from 0, row by row) of the tile that the pixel is.
TileOf(x, y) ==
    (x \div wrapper.nppbh) + (y \div wrapper.nppbv) * wrapper.nbpr
SampleOf(x, y) ==
    (x % wrapper.nppbh) + (y % wrapper.nppbv) * wrapper.nppbh

\* Pixel (x, y) of the raster lies in a decoded tile and is one of its
\* written samples.
TileWrote(x, y) ==
    /\ x \div wrapper.nppbh < wrapper.nbpr
    /\ y \div wrapper.nppbv < wrapper.nbpc
    /\ TileOf(x, y) < TilesDecoded
    /\ SampleOf(x, y) < TileSamples

\* The first three channels of a pixel.
Colour(px) == <<px[1], px[2], px[3]>>

\* C5: a palette decode writes (lut[0][v], lut[1][v], lut[2][v]) for the
\* index byte v, the tables being those of band 0, with alpha 255 in the
\* unblocked path; the blocked path looks the colour up the same way.
C5_PaletteLookup ==
    (Rastered /\ wrapper.irep = "RGBLUT") =>
        IF Unblocked
        THEN \A i \in Pixels(decoded.image) :
                i <= Len(wrapper.data) =>
                    decoded.image.buf[i] =
                        <<LutEntry(wrapper.bands[1].lutd[1], wrapper.data[i]),
                          LutEntry(wrapper.bands[1].lutd[2], wrapper.data[i]),
                          LutEntry(wrapper.bands[1].lutd[3], wrapper.data[i]),
                          255>>
        ELSE \A x \in 0..(decoded.image.width - 1),
                y \in 0..(decoded.image.height - 1) :
                TileWrote(x, y) =>
                    Colour(PixelAt(decoded.image, x, y)) =
                        TileColour(TileOf(x, y), SampleOf(x, y))

\* A palette raster whose second pixel was looked up from index 85, and a
\* blocked palette raster with a decoded tile.
C5_Witness ==
    /\ Rastered /\ wrapper.irep = "RGBLUT"
    /\ \/ /\ Unblocked
          /\ Len(decoded.image.buf) >= 2
          /\ Len(wrapper.data) >= 2
          /\ decoded.image.buf[2] = <<9, 99, 199, 255>>
       \/ /\ ~Unblocked
          /\ TilesDecoded >= 2
          /\ \E i \in Pixels(decoded.image) :
                decoded.image.buf[i] = <<9, 99, 199, 255>>

\* A blocked decode of a representation the decoder reads.
BlockedRaster ==
    Rastered /\ ~Unblocked /\ wrapper.irep \in {"MONO", "RGB", "RGBLUT"}

\* C6: in the raster of a blocked decode the pixel at (x, y) has alpha 255
\* when x < ncols and y < nrows, and alpha 0 otherwise.
C6_AlphaIsTheSignificantExtent ==
    (BlockedRaster /\ wrapper.nbpr >= 1 /\ wrapper.nbpc >= 1
        /\ Len(wrapper.data) >= 1) =>
        \A x \in 0..(decoded.image.width - 1),
           y \in 0..(decoded.image.height - 1) :
            PixelAt(decoded.image, x, y)[4] =
                IF x < wrapper.ncols /\ y < wrapper.nrows THEN 255 ELSE 0

\* C6, amended: the pixel at (x, y) has alpha 255 when x < ncols, y < nrows
\* and a sample of a decoded tile was written there, and alpha 0 otherwise:
\* outside the significant extent alpha is always 0, inside it alpha is 255
\* on every pixel the decoded tiles cover.
C6_AlphaOfWrittenPixels ==
    BlockedRaster =>
        \A x \in 0..(decoded.image.width - 1),
           y \in 0..(decoded.image.height - 1) :
            PixelAt(decoded.image, x, y)[4] =
                IF x < wrapper.ncols /\ y < wrapper.nrows /\ TileWrote(x, y)
                THEN 255 ELSE 0

\* A blocked raster taller than the significant rows, every one of its
\* pixels written by a tile: opaque above row nrows, transparent from it on.
C6_Witness ==
    /\ BlockedRaster
    /\ wrapper.nbpc = 2
    /\ decoded.image.height > wrapper.nrows
    /\ decoded.image.width = wrapper.ncols
    /\ \A x \in 0..(decoded.image.width - 1),
          y \in 0..(decoded.image.height - 1) :
          /\ TileWrote(x, y)
          /\ PixelAt(decoded.image, x, y)[4] =
                IF y < wrapper.nrows THEN 255 ELSE 0

\* C7: the raw plane is cut into consecutive chunks of bytes-per-pixel x
\* block-width x block-height x band-count bytes; chunk k belongs to the
\* block (k mod blocks-per-row, k div blocks-per-row) and its sample j is
\* written at (block-x * block-width + j mod block-width,
\* block-y * block-height + j div block-width).
C7_TileAddressing ==
    BlockedRaster =>
        \A k \in 0..(TilesDecoded - 1), j \in 0..(TileSamples - 1) :
            LET bx == k % wrapper.nbpr
                by == k \div wrapper.nbpr
                x == bx * wrapper.nppbh + (j % wrapper.nppbh)
                y == by * wrapper.nppbv + (j \div wrapper.nppbh)
            IN  /\ x < decoded.image.width
                /\ y < decoded.image.height
                /\ Colour(PixelAt(decoded.image, x, y)) = TileColour(k, j)

\* Four tiles of two samples each, all decoded, in two rows of blocks.
C7_Witness ==
    /\ BlockedRaster
    /\ wrapper.irep = "MONO"
    /\ wrapper.nbpr = 2 /\ wrapper.nbpc = 2
    /\ wrapper.nppbh = 2 /\ wrapper.nppbv = 1
    /\ TilesDecoded = 4 /\ TileSamples = 2
    /\ Colour(PixelAt(decoded.image, 3, 1)) = <<83, 83, 83>>

\* C8: the raster is as wide as the significant columns when blocks-per-row
\* < 2 and blocks-per-row x pixels-per-block-horizontal otherwise, and as
\* high as the significant rows when blocks-per-column < 2 and
\* blocks-per-column x pixels-per-block-vertical otherwise.
C8_RasterDimensions ==
    Rastered =>
        /\ decoded.image.width =
              IF wrapper.nbpr < 2 THEN wrapper.ncols
              ELSE wrapper.nbpr * wrapper.nppbh
        /\ decoded.image.height =
              IF wrapper.nbpc < 2 THEN wrapper.nrows
              ELSE wrapper.nbpc * wrapper.nppbv
        /\ Len(decoded.image.buf) = decoded.image.width * decoded.image.height

\* A raster that takes its width from the tiles and its height from the
\* significant rows, the two differing from the other choice.
C8_Witness ==
    /\ Rastered
    /\ wrapper.nbpr = 2 /\ wrapper.nbpc = 1
    /\ wrapper.nppbh = 2 /\ wrapper.nppbv = 2
    /\ wrapper.ncols = 1 /\ wrapper.nrows = 1
    /\ decoded.image.width = 4 /\ decoded.image.height = 1

\* C9: read_image returns the bit-depth error, and no raster, for every
\* descriptor whose bits-per-pixel is not a multiple of 8, whatever the
\* representation, the block geometry and the raw plane: the check comes
\* before the representation is looked at.
C9_UnalignedBitDepthIsAnError ==
    (Decoded /\ wrapper.nbpp % 8 # 0) => decoded = ErrNbpp

\* An unaligned bit depth on a representation the decoder does not read.
C9_Witness ==
    /\ Decoded
    /\ wrapper.nbpp = 12
    /\ wrapper.irep = "NODISPLY"
    /\ decoded = ErrNbpp

\* C10: with a byte-aligned bits-per-pixel and a representation other than
\* MONO, RGB and RGBLUT, read_image returns UnsupportedRepresentation
\* carrying that representation, and no raster, in the unblocked and in the
\* blocked path, for every block count and every raw-plane length.
\* (Stated here for the descriptors whose blocks and bands are not empty,
\* so that the chunk size is not zero.)
C10_UnsupportedRepresentationIsAnError ==
    (Decoded /\ wrapper.nbpp % 8 = 0
        /\ wrapper.irep \notin {"MONO", "RGB", "RGBLUT"}
        /\ wrapper.nppbh >= 1 /\ wrapper.nppbv >= 1 /\ wrapper.nbands >= 1
        /\ wrapper.nbpr >= 1 /\ wrapper.nbpc >= 1) =>
        decoded = ErrIrep(wrapper.irep)

(***************************************************************************)
(* Aborts of the decoder.                                                  *)
(***************************************************************************)

\* C18: read_image ends in a raster or in a VizError for every descriptor
\* and every raw plane; the degenerate inputs (a zero chunk size, a palette
\* segment without its three 256-entry tables, an RGB plane whose length is
\* not a multiple of three) are reported as errors, never as a panic.
C18_DecodeNeverAborts ==
    Decoded => decoded.kind \in {"ok", "err"}

(***************************************************************************)
(* The density remap.                                                      *)
(***************************************************************************)

\* The plane has been remapped.
Remapped == pc = "done" /\ plane # None

\* The density of sample i (from 1) of the plane.
Density(i) == density_call(pedf, SampleAt(plane.buffer, i - 1))

\* v = d if d <= 127, else 0.5 * (d + 127).
Compressed(d) ==
    IF F32Le(d, F32FromNat(127))
    THEN d
    ELSE F32Mul(F32_0_5, F32Add(d, F32FromNat(127)))

\* trunc(clamp(v, 0, 255)) for a v that is a number: 0 at or below 0, 255
\* at or above 255, else the n with n <= v < n + 1.
TruncClamp(v) ==
    IF F32Le(v, Zero)
    THEN 0
    ELSE IF F32Le(F32FromNat(255), v)
    THEN 255
    ELSE CHOOSE n \in 0..254 :
             F32Le(F32FromNat(n), v) /\ ~F32Le(F32FromNat(n + 1), v)

\* C13: Pedf::remap returns trunc(clamp(v, 0, 255)), v being the density d
\* when d <= 127 and 0.5 * (d + 127) otherwise, d = slope * max(amplitude,
\* eps) + constant; for every density, the negative ones and the ones above
\* 255 included, the result lies in 0..255 and never wraps.
C13_RemapClampsThenTruncates ==
    Remapped =>
        \A i \in 1..Len(remapped) :
            /\ remapped[i] \in 0..255
            /\ ~IsNaN(Compressed(Density(i))) =>
                   remapped[i] = TruncClamp(Compressed(Density(i)))

\* A plane with a sample of negative density, remapped to 0, and a sample
\* of a density above 255, remapped to 255.
C13_Witness ==
    /\ Remapped
    /\ \E i, j \in 1..Len(remapped) :
          /\ F32Le(Density(i), F32Neg(F32FromNat(1)))
          /\ remapped[i] = 0
          /\ F32Le(F32FromNat(256), Density(j))
          /\ remapped[j] = 255

\* Pedf::init has returned.
Calibrated == pc \in {"calibrated", "done"} /\ plane # None

\* The mean amplitude Pedf::init computes for the plane.
MeanAmplitude == FiniteMean(plane.buffer, plane.n_rows, plane.n_cols)

ErrCalibrationDegenerate == Err(<<"CalibrationDegenerate">>)

\* C14: calibration reports CalibrationDegenerate, a recoverable error,
\* whenever the mean amplitude is <= 0 (an all-zero plane) or there is no
\* sample; it never returns a calibration whose slope or constant is not
\* finite.
C14_DegenerateCalibrationIsAnError ==
    Calibrated =>
        /\ (plane.n_rows * plane.n_cols = 0 \/ F32Le(MeanAmplitude, Zero)) =>
               pedf = ErrCalibrationDegenerate
        /\ pedf # ErrCalibrationDegenerate =>
               (IsFin(pedf.slope) /\ IsFin(pedf.constant))

\* The amplitude of sample i (from 1) of the plane.
Amplitude(i) == amplitude(SampleAt(plane.buffer, i - 1))

RECURSIVE SumOfFinite(_)
\* The amplitudes of the first n samples, a non-finite one counted as 0.
SumOfFinite(n) ==
    IF n = 0
    THEN Zero
    ELSE F32Add(SumOfFinite(n - 1),
                IF IsFin(Amplitude(n)) THEN Amplitude(n) ELSE Zero)

\* C15: Pedf::init takes mean = (the sum of the amplitude over the samples
\* whose amplitude is finite) / (rows * cols): a non-finite sample adds
\* nothing to the numerator and still counts in the denominator; then
\* c_low = 0.8 * mean, c_high = 40 * c_low,
\* slope = (255 - 30) / log10(c_high / c_low),
\* constant = 30 - slope * log10(c_low), eps = 1e-5.
C15_CalibrationFormulas ==
    Calibrated =>
        LET n == plane.n_rows * plane.n_cols
            mean == F32Div(SumOfFinite(n), F32FromNat(n))
            c_low == F32Mul(F32_0_8, mean)
            c_high == F32Mul(F32FromNat(40), c_low)
            slope == F32Div(F32FromNat(255 - 30),
                            F32Log10(F32Div(c_high, c_low)))
            constant == F32Sub(F32FromNat(30), F32Mul(slope, F32Log10(c_low)))
        IN  pedf = [eps |-> F32_1Em5, slope |-> slope, constant |-> constant]

\* A calibration from a plane with a sample whose amplitude is not finite
\* next to one whose amplitude is finite and not zero.
C15_Witness ==
    /\ Calibrated
    /\ \E i, j \in 1..(plane.n_rows * plane.n_cols) :
          /\ ~IsFin(Amplitude(i))
          /\ IsFin(Amplitude(j)) /\ ~IsZero(Amplitude(j))
    /\ IsFin(pedf.slope)
    /\ IsFin(pedf.constant)

(***************************************************************************)
(* The resampler of the mosaic thumbnail.                                  *)
(***************************************************************************)

\* The resampler has run to its end and left a raster.
Resampled == pc \in {"resampled", "adjusted", "done"} /\ resampled.kind = "ok"

\* The rows and the columns of the mosaic, counted from 0.
MosaicRows == 0..(SumTo(stack.rows, Len(stack.rows)) - 1)

MosaicColumns == 0..(stack.cols[1] - 1)

\* remap gives k for every sample of the mosaic.
UniformRemap(k) ==
    \A i_row \in MosaicRows, i_col \in MosaicColumns :
        RemapAt(stack, pedf, i_row, i_col) = k

\* C11: if remap yields the same value k for every source sample, every
\* output cell of the resampler equals k, whichever case computes it.
C11_UniformInputInvariance ==
    Resampled =>
        \A k \in {RemapAt(stack, pedf, 0, 0)} :
            UniformRemap(k) =>
                \A i \in DOMAIN resampled.data : resampled.data[i] = k

\* The source box of cell i of the raster (data is in row-major order).
CellBox(i) ==
    Box(Geometry(stack, args.row_res, args.col_res, args.size),
        (i - 1) \div resampled.cols, (i - 1) % resampled.cols)

\* The number of samples in the box of a case-1 cell.
BoxCount(b) == (b.top - b.bottom) * (b.right - b.left)

\* C12: when the box of an output cell spans a boundary on both axes, the
\* cell is the truncated arithmetic mean of remap(sample) over the samples
\* with row in [bottom, top) and column in [left, right): the samples are
\* remapped first and averaged afterwards.
C12_RemapThenAverage ==
    Resampled =>
        \A i \in DOMAIN resampled.data :
            LET b == CellBox(i)
            IN  CaseOf(b) = 1 =>
                    resampled.data[i] =
                        SumBox(stack, pedf, b.bottom, b.top, b.left, b.right)
                            \div BoxCount(b)

\* A case-1 cell has averaged samples whose remapped values differ, and the
\* mean is not a whole number.
C12_Witness ==
    /\ Resampled
    /\ \E i \in DOMAIN resampled.data :
          LET b == CellBox(i)
          IN  /\ CaseOf(b) = 1
              /\ RemapAt(stack, pedf, b.bottom, b.left)
                     # RemapAt(stack, pedf, b.top - 1, b.right - 1)
              /\ SumBox(stack, pedf, b.bottom, b.top, b.left, b.right)
                     % BoxCount(b) # 0

\* The factors of case 4 with h taken from the column edges and v from the
\* row edges, in the order of Case4Factors: the samples at (bottom, left + 1),
\* (bottom + 1, left + 1), (bottom, left), (bottom + 1, left).
ColumnRowFactors(b) ==
    LET h == MeanFract(b.leftf, b.rightf)
        v == MeanFract(b.topf, b.bottomf)
        one == F32FromNat(1)
    IN  <<F32Mul(F32Sub(one, v), h),
          F32Mul(v, h),
          F32Mul(F32Sub(one, v), F32Sub(one, h)),
          F32Mul(v, F32Sub(one, h))>>

\* C20: in case 4 the samples at (bottom, left), (bottom, left + 1),
\* (bottom + 1, left), (bottom + 1, left + 1) are blended with the weights
\* (1-v)(1-h), (1-v)h, v(1-h), vh, with h the fractional coverage from the
\* left and right column edges and v the one from the bottom and top row
\* edges.
C20_Case4WeightsByColumnAndRowFraction ==
    Resampled =>
        \A i \in DOMAIN resampled.data :
            LET b == CellBox(i)
                k(i_row, i_col) == F32FromNat(RemapAt(stack, pedf, i_row, i_col))
            IN  CaseOf(b) = 4 =>
                    resampled.data[i] =
                        Blend4(ColumnRowFactors(b),
                               k(b.bottom, b.left + 1),
                               k(b.bottom + 1, b.left + 1),
                               k(b.bottom, b.left),
                               k(b.bottom + 1, b.left))

(***************************************************************************)
(* The outputs of a run.                                                   *)
(***************************************************************************)

\* A run of the handler is over.
HandlerDone == handler # None /\ pc = "done"

\* The image of segment seg (from 0) as Handler::get_image makes it.
SegmentImage(seg) == HandlerGetImage(handler, seg).image

\* C16: a run that returns Ok has produced, with exactly one segment, one
\* still image; with more than one segment and the individual flag, one
\* still image per segment in segment order; otherwise exactly one
\* animation that loops infinitely and whose frame k is the image of
\* segment k, for every k in 0..numi-1.
C16_OutputSelection ==
    (HandlerDone /\ result = OkUnit) =>
        IF handler.numi = 1
        THEN /\ Len(written) = 1
             /\ written[1].kind = "png"
             /\ written[1].image = SegmentImage(0)
        ELSE IF handler.numi > 1 /\ args.individual
        THEN /\ Len(written) = handler.numi
             /\ \A k \in 1..handler.numi :
                   /\ written[k].kind = "png"
                   /\ written[k].image = SegmentImage(k - 1)
        ELSE /\ Len(written) = 1
             /\ written[1].kind = "gif"
             /\ written[1].repeat = "Infinite"
             /\ Len(written[1].frames) = handler.numi
             /\ \A k \in 1..handler.numi :
                   written[1].frames[k] = SegmentImage(k - 1)

\* The images handed to image.save or to encode_frame so far.
WrittenImages ==
    UNION {IF written[k].kind = "png"
           THEN {written[k].image}
           ELSE {written[k].frames[j] : j \in DOMAIN written[k].frames} :
           k \in DOMAIN written}

\* The rasters of the run before any adjustment: the thumbnails of the
\* segments that decode, or the resampled mosaic.
RawRasters ==
    IF handler # None
    THEN {get_image(handler.wrappers[k], handler.size).image :
             k \in {j \in DOMAIN handler.wrappers :
                       get_image(handler.wrappers[j], handler.size).kind = "ok"}}
    ELSE {GrayImage(resampled)}

\* A channel c after the contrast of a, if it is not 0.
ContrastedChannel(c, a) ==
    LET ratio == F32Div(F32Add(F32FromNat(100), a.contrast), F32FromNat(100))
    IN  IF a.contrast = Zero THEN c ELSE ContrastChannel(c, F32Mul(ratio, ratio))

\* A colour channel c after the adjustments of a: value added first and
\* clamped, if it is not 0; then the contrast, if it is not 0.
AdjustedChannel(c, a) ==
    ContrastedChannel(IF a.brightness = 0
                      THEN c
                      ELSE ClampInt(c + a.brightness, 0, 255), a)

\* C17: every image handed to image.save or to the encoder is a decoded (or
\* resampled) raster to which the brightness was applied first and the
\* contrast second, an adjustment of 0 not at all; in the per-segment
\* pipeline and in the mosaic pipeline.
C17_BrightnessThenContrast ==
    args # None =>
        \A img \in WrittenImages :
            \E raw \in RawRasters :
                /\ img.width = raw.width
                /\ img.height = raw.height
                /\ img.buf = [i \in DOMAIN raw.buf |->
                                 <<AdjustedChannel(raw.buf[i][1], args),
                                   AdjustedChannel(raw.buf[i][2], args),
                                   AdjustedChannel(raw.buf[i][3], args),
                                   ContrastedChannel(raw.buf[i][4], args)>>]

\* An image with pixels was written after both adjustments changed it.
C17_Witness ==
    /\ args # None
    /\ args.brightness # 0
    /\ args.contrast # Zero
    /\ \E img \in WrittenImages :
          /\ img.buf # <<>>
          /\ img \notin RawRasters
          /\ img # brighten_in_place(CHOOSE raw \in RawRasters : TRUE,
                                     args.brightness)

(***************************************************************************)
(* The parallel loops.                                                     *)
(***************************************************************************)

\* A parallel loop is running.
Running == pc \in {"par_mono", "par_resample"}

\* A parallel loop has returned: read_mono's in a decode, the resampler's in
\* a thumbnail run.
Joined == (stack = None /\ pc = "done") \/ pc = "resampled"

\* What the tasks of a loop read: the raw plane (in its wrapper), the mosaic
\* and the calibration.
SharedInputs == <<wrapper, stack, pedf>>

\* C19 as stated: when a parallel loop has returned, every pixel or cell of
\* its output has been written by exactly one task.
C19_EveryCellWrittenOnce ==
    Joined => \A c \in DOMAIN writes : writes[c] = 1

\* No cell is ever written twice; when the loop has returned, the cells that
\* were handed to a task have been written once and the others never.
DisjointWrites ==
    \A c \in DOMAIN writes :
        /\ writes[c] <= 1
        /\ Joined => writes[c] = (IF c <= Len(tasks) THEN 1 ELSE 0)

\* The outcome of a loop is the one of read_image and of Resample, which
\* take the cells in index order: the same raster, or the same panic.
SameOutcome ==
    /\ (stack = None /\ pc = "done") => decoded = read_image(wrapper)
    /\ pc = "resampled" => resampled = Resample(stack, pedf, OutGeometry)
    /\ (stack # None /\ pc = "done") =>
          /\ result = Panicked
          /\ Resample(stack, pedf, OutGeometry) = Panicked

\* C19, amended: in every interleaving of the tasks no cell is written by
\* two tasks and every cell handed to a task is written by it (the pixels
\* past the end of a short raw plane are handed to none), no step of a
\* running loop changes the shared inputs, and the loop ends in the outcome
\* of the sequential order: the same raster, or the same panic.
C19_SchedulingIndependence ==
    /\ [](DisjointWrites /\ SameOutcome)
    /\ [][Running => SharedInputs' = SharedInputs]_vars

\* Tasks out of order: the last task of a loop has written its cell while
\* the first one has not started.
C19_Witness ==
    /\ Running
    /\ Len(tasks) >= 2
    /\ tasks[1].pc = "start"
    /\ tasks[Len(tasks)].pc = "done"
    /\ writes[Len(tasks)] = 1

(***************************************************************************)
(* The failures of a run.                                                  *)
(***************************************************************************)

\* The step decodes segment i_seg and the decoding fails.
DecodeFails ==
    pc = "get_image" /\ HandlerGetImage(handler, i_seg).kind # "ok"

\* The step saves the still image of segment i_seg and the saving fails:
\* no file is added.
SaveFails == pc = "save" /\ written' = written

\* The step encodes the frame of segment i_seg and the encoding fails: no
\* frame is added.
EncodeFails == pc = "encode" /\ written' = written

\* The step ends the run with an error; nothing is decoded, written or
\* encoded after it, as no step of the run starts from "done".
ReturnsError == pc' = "done" /\ result'.kind = "err" /\ i_seg' = i_seg

\* C21: when producing the output of segment i fails (decoding the raster,
\* saving the still image or encoding the animation frame), run returns an
\* error and no segment after i is decoded, written or encoded, in the
\* single, per-segment and animation modes.
C21_FailFastPropagation ==
    [][(handler # None /\ (DecodeFails \/ SaveFails \/ EncodeFails))
           => ReturnsError]_vars

(***************************************************************************)
(* The thumbnail target.                                                   *)
(***************************************************************************)

\* get_image has returned a thumbnail of the raster read_image made.
GotImage ==
    /\ pc = "done" /\ wrapper # IdleWrapper /\ args # None
    /\ decoded # None /\ decoded.kind = "ok"

\* floor(sqrt((w / h) * size^2)), for h >= 1.
TargetWidth(w, h, size) == FloorSqrtFrom(w * size * size, h, 0)

\* C22: the thumbnail target of the per-segment path preserves the aspect
\* ratio of the raster decode returned: with W x H the dimensions of the
\* raster read_image produced, new_width = floor(sqrt((W/H) * size^2)) and
\* new_height = floor(size^2 / new_width).
C22_TargetKeepsRasterAspect ==
    GotImage =>
        /\ picture.width = TargetWidth(decoded.image.width,
                                       decoded.image.height, args.size)
        /\ picture.width >= 1 =>
              picture.height = (args.size * args.size) \div picture.width

(***************************************************************************)
(* The reads of the complex samples.                                       *)
(***************************************************************************)

\* The samples read_nodisplay reads: those of new_slice, data.len() / 8 of
\* them.
NodisplayReads == 0..(Len(plane.buffer) \div 8 - 1)

\* C23: complex samples are read bounds-checked: the calibration and the
\* complex decode read only sample indices i with 8 * (i + 1) <= the length
\* of the raw plane, for every declared rows x cols and every length of the
\* plane, a plane shorter than rows x cols x 8 bytes included.
C23_ComplexReadsInBounds ==
    /\ Calibrated =>
          \A i \in ViewSamples(plane.n_rows, plane.n_cols) :
             InBounds(plane.buffer, i)
    /\ (Remapped /\ result # Fault) =>
          \A i \in NodisplayReads : InBounds(plane.buffer, i)

(***************************************************************************)
(* The RGB example.                                                        *)
(***************************************************************************)

\* The descriptor is the one generate_rgb writes: RGB, three bands, 24 bits
\* per pixel, three bytes per pixel, not blocked.
GenerateRgbSegment ==
    /\ wrapper.irep = "RGB" /\ wrapper.nbands = 3 /\ wrapper.nbpp = 24
    /\ Unblocked
    /\ Len(wrapper.data) = 3 * wrapper.nrows * wrapper.ncols

\* C24: an unblocked RGB segment described the way the generate_rgb example
\* writes it (3 bands, 24 bits per pixel, a multiple of 8) is accepted by
\* decode: read_image returns a raster and not a bit-depth error.
C24_GenerateRgbIsDecoded ==
    (Decoded /\ GenerateRgbSegment) => decoded.kind = "ok"

(***************************************************************************)
(* The coordinates of the blocked decode.                                  *)
(***************************************************************************)

\* The decode takes the blocked path with at least one block on each axis
\* and its MONO or RGB reader gets to put_pixel: the chunks have a size and
\* the samples are one byte.
BlockedPuts ==
    /\ Decoded /\ ~Unblocked /\ wrapper.nbpr >= 1 /\ wrapper.nbpc >= 1
    /\ wrapper.irep \in {"MONO", "RGB"} /\ wrapper.nbpp = 8
    /\ ChunkSize(wrapper) > 0

\* The blocks that get a chunk of the raw plane (from 1).
ChunkedBlocks ==
    1..Min(wrapper.nbpr * wrapper.nbpc,
           Len(wrapper.data) \div ChunkSize(wrapper))

\* The coordinates blocked_read hands to put_pixel for block k: those of
\* block_iter that get a sample of the chunk.
PutCoordinates(k) ==
    {BlockIter(BlockInfos(wrapper)[k])[j] :
        j \in 1..Min(wrapper.nppbh * wrapper.nppbv,
                     IF wrapper.irep = "RGB"
                     THEN ChunkSize(wrapper) \div 3
                     ELSE ChunkSize(wrapper))}

\* C25: in the blocked decode path every coordinate (x, y) written with
\* put_pixel satisfies x < raster width and y < raster height, for every
\* block geometry that takes the blocked path (at least one block per row
\* and per column, not one of each), every significant extent and block
\* size, segments blocked on one axis only included.
C25_BlockedWritesInsideRaster ==
    BlockedPuts =>
        \A k \in ChunkedBlocks : \A c \in PutCoordinates(k) :
            c[1] < ImageCols(wrapper) /\ c[2] < ImageRows(wrapper)

(***************************************************************************)
(* The reads of the resampler.                                             *)
(***************************************************************************)

\* The resampler has run on the mosaic, to a raster or to a panic.
ResampleRan ==
    /\ stack # None /\ resampled # None
    /\ pc \in {"resampled", "adjusted", "done"}

\* The <<row, column>> of the source samples the cell with box b reads: the
\* box in case 1, two columns from left in case 2, two rows from bottom in
\* case 3, the two by two from (bottom, left) in case 4.
CellReads(b) ==
    CASE CaseOf(b) = 1 -> (b.bottom..(b.top - 1)) \X (b.left..(b.right - 1))
      [] CaseOf(b) = 2 -> (b.bottom..(b.top - 1)) \X {b.left, b.left + 1}
      [] CaseOf(b) = 3 -> {b.bottom, b.bottom + 1} \X (b.left..(b.right - 1))
      [] OTHER -> {b.bottom, b.bottom + 1} \X {b.left, b.left + 1}

\* C26: in the resampler, for every input size and every output size, an
\* output larger than the input on an axis included, every source sample
\* read in any of the four cases has row < n_rows and column < n_cols, so
\* no read reaches the out-of-range branch of the mosaic lookup.
C26_ResamplerReadsInRange ==
    ResampleRan =>
        \A g \in {OutGeometry} :
            \A outy \in 0..(g.out_rows - 1), outx \in 0..(g.out_cols - 1) :
                \A rc \in CellReads(Box(g, outy, outx)) :
                    rc[1] < g.n_rows /\ rc[2] < g.n_cols

====
